---- MODULE Spec2Model ----
(***************************************************************************)
(* A model of the chipper CHIP-8 interpreter (crate chip8): the memory,    *)
(* the display, the keypad, the register/stack file and the               *)
(* fetch-decode-execute engine, driven by a host through load_rom, step,   *)
(* cycle, keydown and keyup.                                               *)
(*                                                                         *)
(* A Rust panic (assert!, unwrap of an Err, slice index out of range) is   *)
(* recorded in the field `panic`; the state in which it is recorded is the *)
(* state the interpreter was in when the panic was raised, and no host     *)
(* call is possible afterwards.                                            *)
(***************************************************************************)
EXTENDS Integers, Sequences, FiniteSets, TLC

(* ---------------------------------------------------------------------- *)
(* Program constants                                                       *)
(* ---------------------------------------------------------------------- *)
FONT_CHAR_LENGTH == 5

FONT_DATA ==
  << 240, 144, 144, 144, 240,
      32,  96,  32,  32, 112,
     240,  16, 240, 128, 240,
     240,  16, 240,  16, 240,
     144, 144, 240,  16,  16,
     240, 128, 240,  16, 240,
     240, 128, 240, 144, 240,
     240,  16,  32,  64,  64,
     240, 144, 240, 144, 240,
     240, 144, 240,  16, 240,
     240, 144, 240, 144, 144,
     224, 144, 224, 144, 224,
     240, 128, 128, 128, 240,
     224, 144, 144, 144, 224,
     240, 128, 240, 128, 240,
     240, 128, 240, 128, 128 >>

FONT_ADDR == 80

MEM_SIZE == 4096

ROM_ADDR == 512

STACK_SIZE == 16

REGISTER_COUNT == 16

SCREEN_WIDTH == 64

SCREEN_HEIGHT == 32

KEY_COUNT == 16

DefaultOpsPerCycle == 11

CallDepthLimit == 12

(* ---------------------------------------------------------------------- *)
(* Bounds of the model                                                     *)
(* ---------------------------------------------------------------------- *)
\* number of load_rom calls a behaviour may contain
MaxLoads == 1

\* number of host keys (entries of HostScancodes) the host may press
NumHostKeys == 2

\* the random source yields the bytes (k * 85) % 256, k in 0..MaxRand
MaxRand == 2

\* SpecExec: the x nibble of the executed word ranges over 0..MaxExecX
MaxExecX == 0

\* SpecMemory: number of Memory::write calls, and the length of the data
MaxWrites == 2

MaxWriteLen == 3

\* SpecLoad: number of load_rom calls, and the number of bytes by which the
\* longest program exceeds the room above ROM_ADDR
MaxLongLoads == 2

MaxRomExcess == 2

\* SpecBlock: the x nibble of FX33, FX55 and FX65 ranges over 0..MaxBlockX
MaxBlockX == 2

\* SpecDraw: the glyphs drawn are 0..MaxGlyph and the one after each, and
\* the sprites are 1 or MaxSpriteRows rows high
MaxGlyph == 1

MaxSpriteRows == 5

\* SpecToggle: the coordinates toggled reach MaxToggleOver past the edges
MaxToggleOver == 1

\* SpecKeypad: number of host keys pressed and released
MaxPadKeys == 3

\* SpecTimers: the largest value the timers are set to
MaxTimer == 3

\* SpecAlu: the operands include 0..MaxAluSmall and (255 - MaxAluSmall)..255
MaxAluSmall == 0

\* SpecStoreLoad: the largest x of FX55 and FX65
MaxStoreX == 2

\* SpecJump: the register values include 0..MaxJumpSmall
MaxJumpSmall == 1

\* SpecReload: the number of programs loaded over the first one
MaxReloads == 1

\* SpecKeySkip: V[x] takes the values 16..(15 + MaxSkipOver) above the keys
MaxSkipOver == 1

(* ---------------------------------------------------------------------- *)
(* Fixed-width arithmetic                                                  *)
(* ---------------------------------------------------------------------- *)
RECURSIVE BitAnd(_, _, _)
BitAnd(a, b, w) ==
  IF w = 0 THEN 0
  ELSE (a % 2) * (b % 2) + 2 * BitAnd(a \div 2, b \div 2, w - 1)

RECURSIVE BitOr(_, _, _)
BitOr(a, b, w) ==
  IF w = 0 THEN 0
  ELSE (IF a % 2 = 1 \/ b % 2 = 1 THEN 1 ELSE 0)
       + 2 * BitOr(a \div 2, b \div 2, w - 1)

RECURSIVE BitXor(_, _, _)
BitXor(a, b, w) ==
  IF w = 0 THEN 0
  ELSE ((a + b) % 2) + 2 * BitXor(a \div 2, b \div 2, w - 1)

\* (a & mask) >> shift for a mask of size contiguous one-bits from bit shift
MaskShift(a, size, shift) == (a \div (2 ^ shift)) % (2 ^ size)

\* u8::saturating_sub
saturating_sub(a, b) == IF a >= b THEN a - b ELSE 0

\* u8::wrapping_add
wrapping_add8(a, b) == (a + b) % 256

\* u16::wrapping_add
wrapping_add16(a, b) == (a + b) % 65536

\* u8::overflowing_add: (sum, overflow)
overflowing_add(a, b) == [sum |-> (a + b) % 256, overflow |-> a + b > 255]

\* u8::overflowing_sub: (difference, overflow)
overflowing_sub(a, b) == [sum |-> (a - b + 256) % 256, overflow |-> a < b]

BoolToU8(b) == IF b THEN 1 ELSE 0

(* ---------------------------------------------------------------------- *)
(* Memory (memory.rs)                                                      *)
(* ---------------------------------------------------------------------- *)
\* Memory::new: 4096 zero bytes
Memory_new == [a \in 0..(MEM_SIZE - 1) |-> 0]

\* copy_from_slice: data[addr + k - 1] := bytes[k] for k = from..Len(bytes)
copy_from_slice(data, addr, bytes, from) ==
  [a \in (addr + from - 1)..(addr + Len(bytes) - 1) |-> bytes[a - addr + 1]]
    @@ data

\* Memory::write without the check of the length: the bytes that do not fit
\* wrap around to address 0
Memory_write_wrapping(data, addr, bytes) ==
  IF ~(addr < MEM_SIZE)
  THEN [ok |-> FALSE, err |-> "memory write address out of bounds",
        val |-> 0, data |-> data]
  ELSE [ok |-> TRUE, err |-> "",
        val |-> (MEM_SIZE - addr) % 65536,
        data |-> [a \in DOMAIN data |->
                    IF (a - addr) % MEM_SIZE < Len(bytes)
                    THEN bytes[((a - addr) % MEM_SIZE) + 1]
                    ELSE data[a]]]

\* Memory::write: the result (ok, value returned) and the memory afterwards
Memory_write(data, addr, bytes) ==
  IF ~(addr < MEM_SIZE)
  THEN [ok |-> FALSE, err |-> "memory write address out of bounds",
        val |-> 0, data |-> data]
  ELSE LET available == MEM_SIZE - addr IN
       IF ~(available >= Len(bytes))
       THEN [ok |-> FALSE, err |-> "memory write overflow",
             val |-> 0, data |-> data]
       ELSE [ok |-> TRUE, err |-> "",
             val |-> available % 65536,
             data |-> copy_from_slice(data, addr, bytes, 1)]

(* ---------------------------------------------------------------------- *)
(* Display (display.rs)                                                    *)
(* ---------------------------------------------------------------------- *)
\* Display::new: all pixels off
Display_new ==
  [y \in 0..(SCREEN_HEIGHT - 1) |-> [x \in 0..(SCREEN_WIDTH - 1) |-> 0]]

\* Display::fb: the dirty flag afterwards and the framebuffer returned
Display_fb(fb) == [dirty |-> FALSE, ret |-> fb]

\* Display::toggle switching the pixel on instead of flipping it
Display_toggle_set(fb, dirty, x, y) ==
  IF x >= SCREEN_WIDTH \/ y >= SCREEN_HEIGHT
  THEN [fb |-> fb, dirty |-> dirty, ret |-> FALSE]
  ELSE LET prev == fb[y][x] IN
       [fb |-> [fb EXCEPT ![y][x] = BitOr(prev, 1, 8)],
        dirty |-> TRUE,
        ret |-> (prev = 1)]

\* Display::toggle marking the display dirty before it checks the range
Display_toggle_dirty_first(fb, dirty, x, y) ==
  IF x >= SCREEN_WIDTH \/ y >= SCREEN_HEIGHT
  THEN [fb |-> fb, dirty |-> TRUE, ret |-> FALSE]
  ELSE LET prev == fb[y][x] IN
       [fb |-> [fb EXCEPT ![y][x] = BitXor(prev, 1, 8)],
        dirty |-> TRUE,
        ret |-> (prev = 1)]

\* Display::toggle: the framebuffer, the dirty flag and the value returned
Display_toggle(fb, dirty, x, y) ==
  IF x >= SCREEN_WIDTH \/ y >= SCREEN_HEIGHT
  THEN [fb |-> fb, dirty |-> dirty, ret |-> FALSE]
  ELSE LET prev == fb[y][x] IN
       [fb |-> [fb EXCEPT ![y][x] = BitXor(prev, 1, 8)],
        dirty |-> TRUE,
        ret |-> (prev = 1)]

\* Display::clear that does not mark the display dirty
Display_clear_clean(fb) ==
  [fb |-> [y \in 0..(SCREEN_HEIGHT - 1) |->
             [x \in 0..(SCREEN_WIDTH - 1) |-> 0]],
   dirty |-> FALSE]

\* Display::clear: the framebuffer and the dirty flag afterwards
Display_clear(fb) ==
  [fb |-> [y \in 0..(SCREEN_HEIGHT - 1) |->
             [x \in 0..(SCREEN_WIDTH - 1) |-> 0]],
   dirty |-> TRUE]

(* ---------------------------------------------------------------------- *)
(* Keypad (keypad.rs)                                                      *)
(* ---------------------------------------------------------------------- *)
\* An Option is a set with at most one element: {} is None, {k} is Some(k).
None == {}

Some(k) == {k}

\* Key::from_scancode
Key_from_scancode(value) ==
  CASE value = 18 -> Some(1)
    [] value = 19 -> Some(2)
    [] value = 20 -> Some(3)
    [] value = 21 -> Some(12)
    [] value = 12 -> Some(4)
    [] value = 13 -> Some(5)
    [] value = 14 -> Some(6)
    [] value = 15 -> Some(13)
    [] value = 0 -> Some(7)
    [] value = 1 -> Some(8)
    [] value = 2 -> Some(9)
    [] value = 3 -> Some(14)
    [] value = 6 -> Some(10)
    [] value = 7 -> Some(0)
    [] value = 8 -> Some(11)
    [] value = 9 -> Some(15)
    [] OTHER -> None

\* Keypad::new
Keypad_new == [k \in 0..(KEY_COUNT - 1) |-> 0]

\* Keypad::keydown
Keypad_keydown(keys, key) ==
  IF key # None THEN [k \in DOMAIN keys |-> IF k \in key THEN 1 ELSE keys[k]]
  ELSE keys

\* Keypad::keyup
Keypad_keyup(keys, key) ==
  IF key # None THEN [k \in DOMAIN keys |-> IF k \in key THEN 0 ELSE keys[k]]
  ELSE keys

\* Keypad::is_key_down, for key < 16 (a larger key is an index out of range)
is_key_down(keys, key) == keys[key] = 1

\* Keypad::is_key_up, for key < 16
is_key_up(keys, key) == keys[key] = 0

(* ---------------------------------------------------------------------- *)
(* The interpreter state (struct Chip8) as a record                        *)
(* ---------------------------------------------------------------------- *)
NoPanic == [msg |-> "", at |-> 0, op |-> <<0, 0>>]

\* Chip8Config::new
Chip8Config_new ==
  [legacy_shift |-> FALSE,
   jump_add_offset |-> FALSE,
   memory_increment_i |-> FALSE,
   ops_per_cycle |-> DefaultOpsPerCycle]

\* Chip8::new: the font is written at FONT_ADDR, everything else is zero and
\* pc is ROM_ADDR.  frames (the calls not yet returned from, as pairs
\* <<return address, sp before the call>>), fetches (the number of
\* fetches of the current host call) and fetched (the address and the word
\* of the last fetch) are history fields: no operation reads them.
Chip8_new ==
  [memory |-> Memory_write(Memory_new, FONT_ADDR, FONT_DATA).data,
   fb |-> Display_new,
   dirty |-> FALSE,
   keys |-> Keypad_new,
   awaiting_release |-> None,
   stack |-> [s \in 0..(STACK_SIZE - 1) |-> 0],
   sp |-> 0,
   v |-> [r \in 0..(REGISTER_COUNT - 1) |-> 0],
   pc |-> ROM_ADDR,
   i |-> 0,
   dt |-> 0,
   st |-> 0,
   panic |-> NoPanic,
   frames |-> << >>,
   fetches |-> 0,
   fetched |-> [at |-> 0, word |-> 0]]

\* a panic raised in state m with the given message
Panic(m, msg) == [m EXCEPT !.panic = [msg |-> msg, at |-> 0, op |-> <<0, 0>>]]

Panicked(m) == m.panic.msg # ""

\* Chip8::load_rom setting pc whether or not the write succeeded
load_rom_pc_always(m, rom) ==
  LET w == Memory_write(m.memory, ROM_ADDR, rom) IN
  [ok |-> w.ok, m |-> [m EXCEPT !.memory = w.data, !.pc = ROM_ADDR]]

\* Chip8::load_rom that also gives up the key a wait-for-key latched
load_rom_clearing_latch(m, rom) ==
  LET w == Memory_write(m.memory, ROM_ADDR, rom) IN
  IF ~w.ok THEN [ok |-> FALSE, m |-> m]
  ELSE [ok |-> TRUE, m |-> [m EXCEPT !.memory = w.data, !.pc = ROM_ADDR,
                                     !.awaiting_release = None]]

\* Chip8::load_rom: the result and the state afterwards
load_rom(m, rom) ==
  LET w == Memory_write(m.memory, ROM_ADDR, rom) IN
  IF ~w.ok THEN [ok |-> FALSE, m |-> m]
  ELSE [ok |-> TRUE, m |-> [m EXCEPT !.memory = w.data, !.pc = ROM_ADDR]]

\* Chip8::fetch reading past the end of memory at its start
fetch_wrapping(m) ==
  LET pc == m.pc
      m1 == [m EXCEPT !.fetches = @ + 1]
      b1 == m.memory[pc % MEM_SIZE]
      b2 == m.memory[(pc + 1) % MEM_SIZE] IN
  [m |-> [m1 EXCEPT !.pc = pc + 2,
                    !.fetched = [at |-> pc,
                                 word |-> BitOr(b1 * 256, b2, 16)]],
   opcode |-> BitOr(b1 * 256, b2, 16)]

\* Chip8::fetch reading the low byte first
fetch_little_endian(m) ==
  LET pc == m.pc
      m1 == [m EXCEPT !.fetches = @ + 1] IN
  IF pc >= MEM_SIZE \/ pc + 1 >= MEM_SIZE
  THEN [m |-> Panic(m1, "index out of bounds"), opcode |-> 0]
  ELSE LET b1 == m.memory[pc]
           b2 == m.memory[pc + 1] IN
       [m |-> [m1 EXCEPT !.pc = pc + 2,
                         !.fetched = [at |-> pc,
                                      word |-> BitOr(b2 * 256, b1, 16)]],
        opcode |-> BitOr(b2 * 256, b1, 16)]

\* Chip8::fetch: the state afterwards and the word read
fetch(m) ==
  LET pc == m.pc
      m1 == [m EXCEPT !.fetches = @ + 1] IN
  IF pc >= MEM_SIZE \/ pc + 1 >= MEM_SIZE
  THEN [m |-> Panic(m1, "index out of bounds"), opcode |-> 0]
  ELSE LET b1 == m.memory[pc]
           b2 == m.memory[pc + 1] IN
       [m |-> [m1 EXCEPT !.pc = pc + 2,
                         !.fetched = [at |-> pc,
                                      word |-> BitOr(b1 * 256, b2, 16)]],
        opcode |-> BitOr(b1 * 256, b2, 16)]

\* Chip8::decode: (opcode & mask) >> shift, the mask being size one-bits
\* starting at bit shift
decode(opcode) ==
  [c |-> MaskShift(opcode, 4, 12),
   x |-> MaskShift(opcode, 4, 8),
   y |-> MaskShift(opcode, 4, 4),
   n |-> MaskShift(opcode, 4, 0),
   nn |-> MaskShift(opcode, 8, 0),
   nnn |-> MaskShift(opcode, 12, 0)]

\* Chip8::bail_invalid_op followed by unwrap
bail_invalid_op(m, opcode) ==
  [m EXCEPT !.panic = [msg |-> "invalid opcode",
                       at |-> m.pc - 2,
                       op |-> <<opcode.c, opcode.nnn>>]]

(* ---------------------------------------------------------------------- *)
(* Operations                                                              *)
(* ---------------------------------------------------------------------- *)
\* 00E0
op_cls(m) ==
  LET d == Display_clear(m.fb) IN [m EXCEPT !.fb = d.fb, !.dirty = d.dirty]

\* 00EE without the check for an empty stack (sp wraps, the slot index is
\* taken within the array)
op_sub_return_unchecked(m) ==
  [m EXCEPT !.sp = (m.sp + 255) % 256,
            !.pc = m.stack[((m.sp + 255) % 256) % STACK_SIZE],
            !.frames = IF Len(@) > 0 THEN SubSeq(@, 1, Len(@) - 1) ELSE @]

\* 00EE
op_sub_return(m) ==
  IF ~(m.sp > 0) THEN Panic(m, "sub return with empty stack")
  ELSE [m EXCEPT !.sp = m.sp - 1,
                 !.pc = m.stack[m.sp - 1],
                 !.frames = IF Len(@) > 0 THEN SubSeq(@, 1, Len(@) - 1)
                            ELSE @]

\* 1NNN
op_jump(m, nnn) == [m EXCEPT !.pc = nnn]

\* 2NNN
op_sub_call(m, nnn) ==
  IF ~(m.sp < CallDepthLimit) THEN Panic(m, "call stack overflow")
  ELSE [m EXCEPT !.stack = [@ EXCEPT ![m.sp] = m.pc],
                 !.sp = m.sp + 1,
                 !.pc = nnn,
                 !.frames = Append(@, <<m.pc, m.sp>>)]

\* 3XNN
op_skip_eq(m, x, nn) ==
  IF m.v[x] = nn THEN [m EXCEPT !.pc = @ + 2] ELSE m

\* 4XNN
op_skip_ne(m, x, nn) ==
  IF m.v[x] # nn THEN [m EXCEPT !.pc = @ + 2] ELSE m

\* 5XY0
op_skip_reg_eq(m, x, y) ==
  IF m.v[x] = m.v[y] THEN [m EXCEPT !.pc = @ + 2] ELSE m

\* 6XNN
op_set(m, x, nn) == [m EXCEPT !.v = [@ EXCEPT ![x] = nn]]

\* 7XNN
op_add(m, x, nn) == [m EXCEPT !.v = [@ EXCEPT ![x] = wrapping_add8(@, nn)]]

\* 8XY0
op_reg_set(m, x, y) == [m EXCEPT !.v = [@ EXCEPT ![x] = m.v[y]]]

\* 8XY1
op_reg_or(m, x, y) ==
  [m EXCEPT !.v = [@ EXCEPT ![x] = BitOr(m.v[x], m.v[y], 8)]]

\* 8XY2
op_reg_and(m, x, y) ==
  [m EXCEPT !.v = [@ EXCEPT ![x] = BitAnd(m.v[x], m.v[y], 8)]]

\* 8XY3
op_reg_xor(m, x, y) ==
  [m EXCEPT !.v = [@ EXCEPT ![x] = BitXor(m.v[x], m.v[y], 8)]]

\* 8XY4
op_reg_add(m, x, y) ==
  LET r == overflowing_add(m.v[x], m.v[y]) IN
  [m EXCEPT !.v = [[@ EXCEPT ![x] = r.sum] EXCEPT ![15] = BoolToU8(r.overflow)]]

\* 8XY5 with VF telling that there was a borrow
op_reg_sub_right_borrow(m, x, y) ==
  LET r == overflowing_sub(m.v[x], m.v[y]) IN
  [m EXCEPT !.v = [[@ EXCEPT ![x] = r.sum] EXCEPT ![15] = BoolToU8(r.overflow)]]

\* 8XY5
op_reg_sub_right(m, x, y) ==
  LET r == overflowing_sub(m.v[x], m.v[y]) IN
  [m EXCEPT !.v = [[@ EXCEPT ![x] = r.sum] EXCEPT ![15] = BoolToU8(~r.overflow)]]

\* 8XY6 with the flag taken after the shift
op_reg_shift_right_flag_after(m, cfg, x, y) ==
  LET v1 == IF cfg.legacy_shift THEN [m.v EXCEPT ![x] = m.v[y]] ELSE m.v
      v2 == [v1 EXCEPT ![x] = v1[x] \div 2]
      flag == BitAnd(v2[x], 1, 8) IN
  [m EXCEPT !.v = [v2 EXCEPT ![15] = flag]]

\* 8XY6
op_reg_shift_right(m, cfg, x, y) ==
  LET v1 == IF cfg.legacy_shift THEN [m.v EXCEPT ![x] = m.v[y]] ELSE m.v
      flag == BitAnd(v1[x], 1, 8)
      v2 == [v1 EXCEPT ![x] = v1[x] \div 2] IN
  [m EXCEPT !.v = [v2 EXCEPT ![15] = flag]]

\* 8XY7 with a difference that stops at 0
op_reg_sub_left_saturating(m, x, y) ==
  LET r == overflowing_sub(m.v[y], m.v[x]) IN
  [m EXCEPT !.v = [[@ EXCEPT ![x] = IF r.overflow THEN 0 ELSE r.sum]
                      EXCEPT ![15] = BoolToU8(~r.overflow)]]

\* 8XY7
op_reg_sub_left(m, x, y) ==
  LET r == overflowing_sub(m.v[y], m.v[x]) IN
  [m EXCEPT !.v = [[@ EXCEPT ![x] = r.sum] EXCEPT ![15] = BoolToU8(~r.overflow)]]

\* 8XYE
op_reg_shift_left(m, cfg, x, y) ==
  LET v1 == IF cfg.legacy_shift THEN [m.v EXCEPT ![x] = m.v[y]] ELSE m.v
      flag == BitAnd(v1[x] \div 128, 1, 8)
      v2 == [v1 EXCEPT ![x] = (v1[x] * 2) % 256] IN
  [m EXCEPT !.v = [v2 EXCEPT ![15] = flag]]

\* 9XY0
op_skip_reg_ne(m, x, y) ==
  IF m.v[x] # m.v[y] THEN [m EXCEPT !.pc = @ + 2] ELSE m

\* ANNN
op_set_index(m, nnn) == [m EXCEPT !.i = nnn]

\* BNNN adding V0 whatever the configuration
op_jump_with_offset_v0(m, cfg, nnn, x) ==
  [m EXCEPT !.pc = nnn + m.v[0]]

\* BNNN
op_jump_with_offset(m, cfg, nnn, x) ==
  LET idx == IF cfg.jump_add_offset THEN x ELSE 0 IN
  [m EXCEPT !.pc = nnn + m.v[idx]]

\* CXNN, rnd being the byte drawn from the random source
op_random(m, x, nn, rnd) ==
  [m EXCEPT !.v = [@ EXCEPT ![x] = BitAnd(nn, rnd, 8)]]

\* DXYN, inner loop with VF following the last bit drawn
RECURSIVE draw_cols_last_bit(_, _, _, _, _)
draw_cols_last_bit(d, byte, vx, y, col) ==
  IF col >= 8 THEN d
  ELSE LET x == vx + col IN
       IF x >= SCREEN_WIDTH THEN d
       ELSE IF BitAnd(byte \div (2 ^ (7 - col)), 1, 8) = 1
            THEN LET t == Display_toggle(d.fb, d.dirty, x, y) IN
                 draw_cols_last_bit([fb |-> t.fb, dirty |-> t.dirty,
                                     vf |-> IF t.ret THEN 1 ELSE 0],
                                    byte, vx, y, col + 1)
            ELSE draw_cols_last_bit(d, byte, vx, y, col + 1)

\* DXYN, inner loop with the columns past the right edge drawn at the left
RECURSIVE draw_cols_wrapping(_, _, _, _, _)
draw_cols_wrapping(d, byte, vx, y, col) ==
  IF col >= 8 THEN d
  ELSE LET x == (vx + col) % SCREEN_WIDTH IN
       IF BitAnd(byte \div (2 ^ (7 - col)), 1, 8) = 1
       THEN LET t == Display_toggle(d.fb, d.dirty, x, y) IN
            draw_cols_wrapping([fb |-> t.fb, dirty |-> t.dirty,
                                vf |-> IF t.ret THEN 1 ELSE d.vf],
                               byte, vx, y, col + 1)
       ELSE draw_cols_wrapping(d, byte, vx, y, col + 1)

\* DXYN, inner loop: the bits of one sprite row from column col on;
\* d is the framebuffer, the dirty flag and VF so far
RECURSIVE draw_cols(_, _, _, _, _)
draw_cols(d, byte, vx, y, col) ==
  IF col >= 8 THEN d
  ELSE LET x == vx + col IN
       IF x >= SCREEN_WIDTH THEN d
       ELSE IF BitAnd(byte \div (2 ^ (7 - col)), 1, 8) = 1
            THEN LET t == Display_toggle(d.fb, d.dirty, x, y) IN
                 draw_cols([fb |-> t.fb, dirty |-> t.dirty,
                            vf |-> IF t.ret THEN 1 ELSE d.vf],
                           byte, vx, y, col + 1)
            ELSE draw_cols(d, byte, vx, y, col + 1)

\* DXYN, outer loop: the sprite rows from row on
RECURSIVE draw_rows(_, _, _, _, _)
draw_rows(m, vx, vy, n, row) ==
  IF row >= n THEN m
  ELSE LET y == vy + row IN
       IF y >= SCREEN_HEIGHT THEN m
       ELSE IF m.i + row >= MEM_SIZE THEN Panic(m, "index out of bounds")
       ELSE LET d == draw_cols([fb |-> m.fb, dirty |-> m.dirty, vf |-> m.v[15]],
                               m.memory[m.i + row], vx, y, 0) IN
            draw_rows([m EXCEPT !.fb = d.fb, !.dirty = d.dirty,
                                !.v = [@ EXCEPT ![15] = d.vf]],
                      vx, vy, n, row + 1)

\* DXYN
op_display(m, x, y, n) ==
  LET vx == m.v[x] % SCREEN_WIDTH
      vy == m.v[y] % SCREEN_HEIGHT IN
  draw_rows([m EXCEPT !.v = [@ EXCEPT ![15] = 0]], vx, vy, n, 0)

\* EX9E
op_skip_if_key_down(m, x) ==
  IF m.v[x] >= KEY_COUNT THEN Panic(m, "index out of bounds")
  ELSE IF is_key_down(m.keys, m.v[x]) THEN [m EXCEPT !.pc = @ + 2] ELSE m

\* EXA1
op_skip_if_key_up(m, x) ==
  IF m.v[x] >= KEY_COUNT THEN Panic(m, "index out of bounds")
  ELSE IF is_key_up(m.keys, m.v[x]) THEN [m EXCEPT !.pc = @ + 2] ELSE m

\* FX07
op_dt_get(m, x) == [m EXCEPT !.v = [@ EXCEPT ![x] = m.dt]]

\* FX0A, the scan going on after a key that is down: the last one is latched
RECURSIVE scan_keys_last(_, _, _)
scan_keys_last(keys, awaiting_release, key) ==
  IF key >= 16 THEN awaiting_release
  ELSE scan_keys_last(keys,
                      IF is_key_down(keys, key) THEN Some(key)
                      ELSE awaiting_release,
                      key + 1)

\* FX0A, the scan `for key in 0..0xF + 1`: the latch after the scan from key on
RECURSIVE scan_keys(_, _, _)
scan_keys(keys, awaiting_release, key) ==
  IF key >= 16 THEN awaiting_release
  ELSE IF is_key_down(keys, key) THEN Some(key)
  ELSE scan_keys(keys, awaiting_release, key + 1)

\* FX0A without the decrement of pc when no key is down
op_get_key_no_hold(m, x) ==
  IF m.awaiting_release # None
     /\ \E key \in m.awaiting_release : is_key_up(m.keys, key)
  THEN LET key == CHOOSE k \in m.awaiting_release : TRUE IN
       [m EXCEPT !.v = [@ EXCEPT ![x] = key], !.awaiting_release = None]
  ELSE LET a == scan_keys(m.keys, m.awaiting_release, 0) IN
       [m EXCEPT !.awaiting_release = a,
                 !.pc = IF a = None THEN @ ELSE @ - 2]

\* FX0A completing as soon as a key is down
op_get_key_on_press(m, x) ==
  LET a == scan_keys(m.keys, None, 0) IN
  IF a # None
  THEN LET key == CHOOSE k \in a : TRUE IN
       [m EXCEPT !.v = [@ EXCEPT ![x] = key], !.awaiting_release = None]
  ELSE [m EXCEPT !.pc = @ - 2]

\* FX0A forgetting the latched key when it is released
op_get_key_drop_release(m, x) ==
  IF m.awaiting_release # None
     /\ \E key \in m.awaiting_release : is_key_up(m.keys, key)
  THEN [m EXCEPT !.awaiting_release = None, !.pc = @ - 2]
  ELSE [m EXCEPT !.awaiting_release = scan_keys(m.keys, @, 0),
                 !.pc = @ - 2]

\* FX0A
op_get_key(m, x) ==
  IF m.awaiting_release # None
     /\ \E key \in m.awaiting_release : is_key_up(m.keys, key)
  THEN LET key == CHOOSE k \in m.awaiting_release : TRUE IN
       [m EXCEPT !.v = [@ EXCEPT ![x] = key], !.awaiting_release = None]
  ELSE [m EXCEPT !.awaiting_release = scan_keys(m.keys, @, 0),
                 !.pc = @ - 2]

\* FX15
op_dt_set(m, x) == [m EXCEPT !.dt = m.v[x]]

\* FX18
op_st_set(m, x) == [m EXCEPT !.st = m.v[x]]

\* FX1E
op_add_to_index(m, x) == [m EXCEPT !.i = wrapping_add16(@, m.v[x])]

\* FX29
op_font_character(m, x) ==
  [m EXCEPT !.i = (FONT_ADDR + FONT_CHAR_LENGTH * BitAnd(m.v[x], 255, 8))
                  % 65536]

\* FX33
op_convert_to_decimal(m, x) ==
  LET n == m.v[x] IN
  IF ~(m.i + 2 < MEM_SIZE) THEN Panic(m, "memory write overflow")
  ELSE [m EXCEPT !.memory = [@ EXCEPT ![m.i + 0] = (n \div 100) % 10,
                                      ![m.i + 1] = (n \div 10) % 10,
                                      ![m.i + 2] = (n \div 1) % 10]]

\* FX55, the loop `for i in 0..x + 1` from k on
RECURSIVE store_loop(_, _, _, _, _)
store_loop(m, cfg, start, x, k) ==
  IF k >= x + 1 THEN m
  ELSE store_loop([m EXCEPT !.memory = [@ EXCEPT ![start + k] = m.v[k]],
                            !.i = IF cfg.memory_increment_i THEN @ + 1 ELSE @],
                  cfg, start, x, k + 1)

\* FX55 storing the registers that fit before it fails
op_memory_store_partial(m, cfg, x) ==
  IF ~(m.i + x < MEM_SIZE)
  THEN Panic(store_loop(m, cfg, m.i, (MEM_SIZE - 1) - m.i, 0),
             "memory write overflow")
  ELSE store_loop(m, cfg, m.i, x, 0)

\* FX55
op_memory_store(m, cfg, x) ==
  IF ~(m.i + x < MEM_SIZE) THEN Panic(m, "memory write overflow")
  ELSE store_loop(m, cfg, m.i, x, 0)

\* FX65, the loop `for i in 0..x + 1` from k on
RECURSIVE load_loop(_, _, _, _, _)
load_loop(m, cfg, start, x, k) ==
  IF k >= x + 1 THEN m
  ELSE load_loop([m EXCEPT !.v = [@ EXCEPT ![k] = m.memory[start + k]],
                           !.i = IF cfg.memory_increment_i THEN @ + 1 ELSE @],
                 cfg, start, x, k + 1)

\* FX65, the loop reading at the index register as it moves
RECURSIVE load_loop_moving(_, _, _, _)
load_loop_moving(m, cfg, x, k) ==
  IF k >= x + 1 THEN m
  ELSE load_loop_moving(
         [m EXCEPT !.v = [@ EXCEPT ![k] = m.memory[(m.i + k) % MEM_SIZE]],
                   !.i = IF cfg.memory_increment_i THEN @ + 1 ELSE @],
         cfg, x, k + 1)

\* FX65 reading at the moving index register
op_memory_load_moving(m, cfg, x) ==
  IF ~(m.i + x < MEM_SIZE) THEN Panic(m, "memory read out of bounds")
  ELSE load_loop_moving(m, cfg, x, 0)

\* FX65
op_memory_load(m, cfg, x) ==
  IF ~(m.i + x < MEM_SIZE) THEN Panic(m, "memory read out of bounds")
  ELSE load_loop(m, cfg, m.i, x, 0)

(* ---------------------------------------------------------------------- *)
(* Execute, step, cycle                                                    *)
(* ---------------------------------------------------------------------- *)
\* Chip8::execute
execute(m, cfg, opcode, rnd) ==
  LET c == opcode.c
      x == opcode.x
      y == opcode.y
      n == opcode.n
      nn == opcode.nn
      nnn == opcode.nnn IN
  CASE c = 0 ->
         (IF x = 0 /\ y = 14 /\ n = 0 THEN op_cls(m)
          ELSE IF x = 0 /\ y = 14 /\ n = 14 THEN op_sub_return(m)
          ELSE bail_invalid_op(m, opcode))
    [] c = 1 -> op_jump(m, nnn)
    [] c = 2 -> op_sub_call(m, nnn)
    [] c = 3 -> op_skip_eq(m, x, nn)
    [] c = 4 -> op_skip_ne(m, x, nn)
    [] c = 5 -> op_skip_reg_eq(m, x, y)
    [] c = 6 -> op_set(m, x, nn)
    [] c = 7 -> op_add(m, x, nn)
    [] c = 8 ->
         (CASE n = 0 -> op_reg_set(m, x, y)
            [] n = 1 -> op_reg_or(m, x, y)
            [] n = 2 -> op_reg_and(m, x, y)
            [] n = 3 -> op_reg_xor(m, x, y)
            [] n = 4 -> op_reg_add(m, x, y)
            [] n = 5 -> op_reg_sub_right(m, x, y)
            [] n = 6 -> op_reg_shift_right(m, cfg, x, y)
            [] n = 7 -> op_reg_sub_left(m, x, y)
            [] n = 14 -> op_reg_shift_left(m, cfg, x, y)
            [] OTHER -> bail_invalid_op(m, opcode))
    [] c = 9 -> op_skip_reg_ne(m, x, y)
    [] c = 10 -> op_set_index(m, nnn)
    [] c = 11 -> op_jump_with_offset(m, cfg, nnn, x)
    [] c = 12 -> op_random(m, x, nn, rnd)
    [] c = 13 -> op_display(m, x, y, n)
    [] c = 14 ->
         (CASE nn = 158 -> op_skip_if_key_down(m, x)
            [] nn = 161 -> op_skip_if_key_up(m, x)
            [] OTHER -> bail_invalid_op(m, opcode))
    [] c = 15 ->
         (CASE nn = 7 -> op_dt_get(m, x)
            [] nn = 10 -> op_get_key(m, x)
            [] nn = 21 -> op_dt_set(m, x)
            [] nn = 24 -> op_st_set(m, x)
            [] nn = 30 -> op_add_to_index(m, x)
            [] nn = 41 -> op_font_character(m, x)
            [] nn = 51 -> op_convert_to_decimal(m, x)
            [] nn = 85 -> op_memory_store(m, cfg, x)
            [] nn = 101 -> op_memory_load(m, cfg, x)
            [] OTHER -> bail_invalid_op(m, opcode))
    [] OTHER -> bail_invalid_op(m, opcode)

\* Chip8::step, rnd being the byte the random source yields if it is asked
step(m, cfg, rnd) ==
  LET f == fetch(m) IN
  IF Panicked(f.m) THEN f.m
  ELSE execute(f.m, cfg, decode(f.opcode), rnd)

\* the bytes the random source may yield
RandBytes == {(k * 85) % 256 : k \in 0..MaxRand}

\* the states one step may lead to: one for each byte the random source may
\* yield when the instruction at pc is CXNN, the only one that asks it
step_outcomes(m, cfg) ==
  IF m.pc < MEM_SIZE /\ m.memory[m.pc] \div 16 = 12
  THEN {step(m, cfg, rnd) : rnd \in RandBytes}
  ELSE {step(m, cfg, 0)}

\* the loop of Chip8::cycle leaving as soon as a wait for a key is pending
RECURSIVE cycle_loop_stalling(_, _, _)
cycle_loop_stalling(m, cfg, k) ==
  IF k = 0 \/ Panicked(m) \/ (m.fetches > 0 /\ m.fetched.at = m.pc) THEN {m}
  ELSE UNION {cycle_loop_stalling(m2, cfg, k - 1) :
                m2 \in step_outcomes(m, cfg)}

\* Chip8::cycle, the loop `for _ in 0..ops_per_cycle` with k iterations left:
\* the states it may end in (a panic ends it)
RECURSIVE cycle_loop(_, _, _)
cycle_loop(m, cfg, k) ==
  IF k = 0 \/ Panicked(m) THEN {m}
  ELSE UNION {cycle_loop(m2, cfg, k - 1) : m2 \in step_outcomes(m, cfg)}

\* Chip8::cycle with timers that wrap below 0
cycle_timers_wrapping(m, cfg) ==
  cycle_loop([m EXCEPT !.dt = (@ + 255) % 256,
                       !.st = (@ + 255) % 256],
             cfg, cfg.ops_per_cycle)

\* Chip8::is_sound_playing answering for the cycle to come
is_sound_playing_late(m) == m.st > 1

\* Chip8::is_sound_playing
is_sound_playing(m) == m.st > 0

\* Chip8::cycle: the states it may end in
cycle(m, cfg) ==
  cycle_loop([m EXCEPT !.dt = saturating_sub(@, 1),
                       !.st = saturating_sub(@, 1)],
             cfg, cfg.ops_per_cycle)

(* ---------------------------------------------------------------------- *)
(* State                                                                   *)
(* ---------------------------------------------------------------------- *)
VARIABLES
  config,            \* Chip8.config
  memory,            \* Chip8.memory.data
  fb,                \* Chip8.display.fb
  dirty,             \* Chip8.display.dirty
  keys,              \* Chip8.keypad.keys
  awaiting_release,  \* Chip8.keypad.awaiting_release
  stack,             \* Chip8.stack
  sp,                \* Chip8.sp
  v,                 \* Chip8.v
  pc,                \* Chip8.pc
  i,                 \* Chip8.i
  dt,                \* Chip8.dt
  st,                \* Chip8.st
  panic,             \* the panic that ended the program, NoPanic if none
  frames,            \* history: calls not yet returned from
  fetches,           \* history: fetches made by the last host call
  fetched,           \* history: address and word of the last fetch
  call,              \* history: the last host call and its arguments
  ret,               \* history: what the last host call returned
  loads,             \* history: number of load_rom calls so far
  writes,            \* history: number of Memory::write calls so far
  snapshot           \* history: the framebuffer the last fb() call returned

vars ==
  << config, memory, fb, dirty, keys, awaiting_release, stack, sp, v, pc, i,
     dt, st, panic, frames, fetches, fetched, call, ret, loads, writes,
     snapshot >>

\* the interpreter state as a record
Machine ==
  [memory |-> memory, fb |-> fb, dirty |-> dirty, keys |-> keys,
   awaiting_release |-> awaiting_release, stack |-> stack, sp |-> sp,
   v |-> v, pc |-> pc, i |-> i, dt |-> dt, st |-> st, panic |-> panic,
   frames |-> frames, fetches |-> fetches, fetched |-> fetched]

\* the next interpreter state is m
SetMachine(m) ==
  /\ memory' = m.memory
  /\ fb' = m.fb
  /\ dirty' = m.dirty
  /\ keys' = m.keys
  /\ awaiting_release' = m.awaiting_release
  /\ stack' = m.stack
  /\ sp' = m.sp
  /\ v' = m.v
  /\ pc' = m.pc
  /\ i' = m.i
  /\ dt' = m.dt
  /\ st' = m.st
  /\ panic' = m.panic
  /\ frames' = m.frames
  /\ fetches' = m.fetches
  /\ fetched' = m.fetched

Ok(val) == [ok |-> TRUE, val |-> val]

Err(msg) == [ok |-> FALSE, val |-> msg]

(* ---------------------------------------------------------------------- *)
(* Inputs                                                                  *)
(* ---------------------------------------------------------------------- *)
\* F10A wait for a key into V1; 1200 jump back
RomWaitKey == << 241, 10, 18, 0 >>

\* 200: 2206  202: 2208  204: 00EE  206: 2208  208: 00EE
RomCalls == << 34, 6, 34, 8, 0, 238, 34, 8, 0, 238 >>

\* 200: 2200, a subroutine that calls itself
RomRecurse == << 34, 0 >>

\* 200: 5011  202: 1202  204: 8008
RomOperands == << 80, 17, 18, 2, 128, 8 >>

\* 200: C001  202: F015  204: F018  206: 1206
RomTimers == << 192, 1, 240, 21, 240, 24, 18, 6 >>

Roms == { RomWaitKey, RomCalls, RomRecurse, RomOperands, RomTimers }

\* 200: 6005  202: F00A wait for a key into V0  204: 1202
RomSetThenWait == << 96, 5, 240, 10, 18, 2 >>

\* the programs that wait for a key
WaitRoms == { RomWaitKey, RomSetThenWait }

\* the scancodes the host sends, in the order the bound adds them:
\* V (key F), X (key 0), a key without a CHIP-8 key, 1 (key 1), 2 (key 2)
ScancodeOrder == << 9, 7, 4, 18, 19 >>

HostScancodes == { ScancodeOrder[j] : j \in 1..NumHostKeys }

\* the values of ops_per_cycle the host sets: the default and single-stepping
OpsPerCycleChoices == { DefaultOpsPerCycle, 1 }

\* the default quirks with the default or an overridden ops_per_cycle (used
\* where the host drives whole programs, none of which contains a
\* quirk-dependent instruction)
Configs ==
  { [Chip8Config_new EXCEPT !.ops_per_cycle = n] : n \in OpsPerCycleChoices }

(* ---------------------------------------------------------------------- *)
(* The host driving one interpreter                                        *)
(* ---------------------------------------------------------------------- *)
\* the interpreter state is m
MachineIs(m) ==
  /\ memory = m.memory
  /\ fb = m.fb
  /\ dirty = m.dirty
  /\ keys = m.keys
  /\ awaiting_release = m.awaiting_release
  /\ stack = m.stack
  /\ sp = m.sp
  /\ v = m.v
  /\ pc = m.pc
  /\ i = m.i
  /\ dt = m.dt
  /\ st = m.st
  /\ panic = m.panic
  /\ frames = m.frames
  /\ fetches = m.fetches
  /\ fetched = m.fetched

\* Chip8::new followed by the builder functions
Init ==
  /\ config \in Configs
  /\ MachineIs(Chip8_new)
  /\ call = [op |-> "new", arg |-> << >>]
  /\ ret = Ok(0)
  /\ loads = 0
  /\ writes = 0
  /\ snapshot = Display_new

\* Chip8::load_rom(rom)
LoadRom ==
  /\ ~Panicked(Machine)
  /\ loads < MaxLoads
  /\ \E rom \in Roms :
       LET r == load_rom([Machine EXCEPT !.fetches = 0], rom) IN
       /\ SetMachine(r.m)
       /\ ret' = (IF r.ok THEN Ok(0) ELSE Err("write rom into memory"))
       /\ call' = [op |-> "load_rom", arg |-> rom]
  /\ loads' = loads + 1
  /\ UNCHANGED << config, writes, snapshot >>

\* Chip8::step()
Step ==
  /\ ~Panicked(Machine)
  /\ \E m2 \in step_outcomes([Machine EXCEPT !.fetches = 0], config) :
       SetMachine(m2)
  /\ call' = [op |-> "step", arg |-> << >>]
  /\ ret' = Ok(0)
  /\ UNCHANGED << config, loads, writes, snapshot >>

\* Chip8::cycle()
Cycle ==
  /\ ~Panicked(Machine)
  /\ \E m2 \in cycle([Machine EXCEPT !.fetches = 0], config) :
       SetMachine(m2)
  /\ call' = [op |-> "cycle", arg |-> << >>]
  /\ ret' = Ok(0)
  /\ UNCHANGED << config, loads, writes, snapshot >>

\* Chip8::keydown(scancode)
KeyDown ==
  /\ ~Panicked(Machine)
  /\ \E scancode \in HostScancodes :
       /\ keys' = Keypad_keydown(keys, Key_from_scancode(scancode))
       /\ call' = [op |-> "keydown", arg |-> scancode]
  /\ ret' = Ok(0)
  /\ fetches' = 0
  /\ UNCHANGED << config, memory, fb, dirty, awaiting_release, stack, sp, v,
                  pc, i, dt, st, panic, frames, fetched, loads, writes,
                  snapshot >>

\* Chip8::keyup(scancode)
KeyUp ==
  /\ ~Panicked(Machine)
  /\ \E scancode \in HostScancodes :
       /\ keys' = Keypad_keyup(keys, Key_from_scancode(scancode))
       /\ call' = [op |-> "keyup", arg |-> scancode]
  /\ ret' = Ok(0)
  /\ fetches' = 0
  /\ UNCHANGED << config, memory, fb, dirty, awaiting_release, stack, sp, v,
                  pc, i, dt, st, panic, frames, fetched, loads, writes,
                  snapshot >>

Next == LoadRom \/ Step \/ Cycle \/ KeyDown \/ KeyUp

Spec == Init /\ [][Next]_vars

(* ---------------------------------------------------------------------- *)
(* A host that has loaded a program that waits for keys and from then on   *)
(* calls step, keydown and keyup, and never stops calling step             *)
(* ---------------------------------------------------------------------- *)
\* Chip8::new, the builder functions and load_rom(rom)
InitLoaded ==
  /\ config = Chip8Config_new
  /\ \E rom \in WaitRoms :
       /\ MachineIs(load_rom(Chip8_new, rom).m)
       /\ call = [op |-> "load_rom", arg |-> rom]
  /\ ret = Ok(0)
  /\ loads = 1
  /\ writes = 0
  /\ snapshot = Display_new

NextStepping == Step \/ KeyDown \/ KeyUp

SpecStepping == InitLoaded /\ [][NextStepping]_vars /\ WF_vars(Step)

(* ---------------------------------------------------------------------- *)
(* One instruction word executed by a freshly constructed interpreter      *)
(* ---------------------------------------------------------------------- *)
\* the words executed: every class, y and n nibble, x in 0..MaxExecX
ExecWords ==
  { c * 4096 + x * 256 + y * 16 + n :
      c \in 0..15, x \in 0..MaxExecX, y \in 0..15, n \in 0..15 }

\* Chip8::new and load_rom of the two bytes of a word
InitExec ==
  /\ config = Chip8Config_new
  /\ \E word \in ExecWords :
       LET rom == << word \div 256, word % 256 >> IN
       /\ MachineIs(load_rom(Chip8_new, rom).m)
       /\ call = [op |-> "load_rom", arg |-> rom]
  /\ ret = Ok(0)
  /\ loads = 1
  /\ writes = 0
  /\ snapshot = Display_new

NextExec == Step

SpecExec == InitExec /\ [][NextExec]_vars

(* ---------------------------------------------------------------------- *)
(* A Memory on its own, written by Memory::write                           *)
(* ---------------------------------------------------------------------- *)
\* the addresses written at: the first, the last ones, the first ones out of
\* range and the largest u16
WriteAddrs == { 0, MEM_SIZE - 2, MEM_SIZE - 1, MEM_SIZE, 65535 }

WritePattern == << 171, 205, 239, 18, 52 >>

\* the data written: the first n bytes of the pattern
WriteDatas == { SubSeq(WritePattern, 1, n) : n \in 0..MaxWriteLen }

\* Memory::new (the other variables are those of a new interpreter and
\* never change)
InitMemory ==
  /\ config = Chip8Config_new
  /\ MachineIs([Chip8_new EXCEPT !.memory = Memory_new])
  /\ call = [op |-> "new", arg |-> << >>]
  /\ ret = Ok(0)
  /\ loads = 0
  /\ writes = 0
  /\ snapshot = Display_new

\* Memory::write(addr, data)
MemWrite ==
  /\ writes < MaxWrites
  /\ \E addr \in WriteAddrs, bytes \in WriteDatas :
       LET w == Memory_write(memory, addr, bytes) IN
       /\ memory' = w.data
       /\ ret' = (IF w.ok THEN Ok(w.val) ELSE Err(w.err))
       /\ call' = [op |-> "write", arg |-> << addr, bytes >>]
  /\ writes' = writes + 1
  /\ UNCHANGED << config, fb, dirty, keys, awaiting_release, stack, sp, v,
                  pc, i, dt, st, panic, frames, fetches, fetched, loads,
                  snapshot >>

NextMemory == MemWrite

SpecMemory == InitMemory /\ [][NextMemory]_vars

(* ---------------------------------------------------------------------- *)
(* A host that loads programs of all lengths and steps them                *)
(* ---------------------------------------------------------------------- *)
\* the room for a program: MEM_SIZE - ROM_ADDR bytes (Memory::write's
\* `available` for addr = ROM_ADDR)
RomRoom == MEM_SIZE - ROM_ADDR

\* the lengths of the programs loaded: the shortest ones, the longest ones
\* that fit and the first ones that do not
LongRomLengths ==
  { 0, 1, 4, RomRoom - 1, RomRoom } \cup
  { RomRoom + e : e \in 1..MaxRomExcess }

\* a program of jumps: with back = 2 the words are 1202, 1200, 1202, ...
\* (pc alternates between 0x200 and 0x202), with back = 0 they are all 1200
JumpRom(len, back) ==
  [k \in 1..len |->
     IF k % 2 = 1 THEN 18
     ELSE IF k % 4 = 2 THEN back ELSE 0]

LongRoms == { JumpRom(len, back) : len \in LongRomLengths, back \in {0, 2} }

\* Chip8::new
InitLoad ==
  /\ config = Chip8Config_new
  /\ MachineIs(Chip8_new)
  /\ call = [op |-> "new", arg |-> << >>]
  /\ ret = Ok(0)
  /\ loads = 0
  /\ writes = 0
  /\ snapshot = Display_new

\* Chip8::load_rom(rom) with the long programs
LoadLongRom ==
  /\ ~Panicked(Machine)
  /\ loads < MaxLongLoads
  /\ \E rom \in LongRoms :
       LET r == load_rom([Machine EXCEPT !.fetches = 0], rom) IN
       /\ SetMachine(r.m)
       /\ ret' = (IF r.ok THEN Ok(0) ELSE Err("write rom into memory"))
       /\ call' = [op |-> "load_rom", arg |-> rom]
  /\ loads' = loads + 1
  /\ UNCHANGED << config, writes, snapshot >>

NextLoad == LoadLongRom \/ Step

SpecLoad == InitLoad /\ [][NextLoad]_vars

(* ---------------------------------------------------------------------- *)
(* Programs that set I and run one of FX33, FX55, FX65                     *)
(* ---------------------------------------------------------------------- *)
\* the addresses ANNN sets I to: the font and the last three bytes
BlockAddrs == { FONT_ADDR, MEM_SIZE - 3, MEM_SIZE - 2, MEM_SIZE - 1 }

\* what FX1E then adds to I (the value of V0)
BlockOffsets == { 0, 2 }

\* FX33, FX55, FX65
BlockOps == { 51, 85, 101 }

\* 60aa 61EA 627B Annn F01E Fxop: V0 = a, V1 = 0xEA, V2 = 0x7B,
\* I = nnn + a, then the instruction
BlockRom(a, nnn, x, op) ==
  << 96, a, 97, 234, 98, 123, 160 + (nnn \div 256), nnn % 256,
     240, 30, 240 + x, op >>

BlockRoms ==
  { BlockRom(a, nnn, x, op) :
      a \in BlockOffsets, nnn \in BlockAddrs, x \in 0..MaxBlockX,
      op \in BlockOps }

\* Chip8::new, memory_increment_i(on or off) and load_rom(rom)
InitBlock ==
  /\ config \in { [Chip8Config_new EXCEPT !.memory_increment_i = q] :
                    q \in BOOLEAN }
  /\ \E rom \in BlockRoms :
       /\ MachineIs(load_rom(Chip8_new, rom).m)
       /\ call = [op |-> "load_rom", arg |-> rom]
  /\ ret = Ok(0)
  /\ loads = 1
  /\ writes = 0
  /\ snapshot = Display_new

NextBlock == Step

SpecBlock == InitBlock /\ [][NextBlock]_vars

(* ---------------------------------------------------------------------- *)
(* Programs that draw glyphs, stepped by a host that takes snapshots       *)
(* ---------------------------------------------------------------------- *)
\* the values of V0 and V1: the origin, past the right and the bottom edge
\* before the reduction modulo 64 and 32
DrawXs == { 0, 61, 127 }

DrawYs == { 0, 29, 63 }

DrawHeights == { 1, MaxSpriteRows }

\* the address of the glyph of digit g
GlyphAddr(g) == FONT_ADDR + FONT_CHAR_LENGTH * g

\* 0x200 60vx   V0 = vx
\* 0x202 61vy   V1 = vy
\* 0x204 Annn   I = glyph g
\* 0x206 D01n   draw it at (V0, V1)
\* 0x208 Annn   I = glyph g + 1
\* 0x20A D10n   draw it at (V1, V0)
\* 0x20C D10n   and again, which erases it
\* 0x20E 00E0   clear
\* 0x210 D01n   draw glyph g + 1 at (V0, V1)
\* 0x212 120E   back to the clear
DrawRom(vx, vy, g, n) ==
  << 96, vx, 97, vy,
     160 + (GlyphAddr(g) \div 256), GlyphAddr(g) % 256,
     208, 16 + n,
     160 + (GlyphAddr(g + 1) \div 256), GlyphAddr(g + 1) % 256,
     209, n,
     209, n,
     0, 224,
     208, 16 + n,
     18, 14 >>

\* 60FF AFFE F055 6100 6F01 D113: memory[4094] = 0xFF, VF = 1, then a
\* sprite of 3 rows at I = 4094 drawn at (0, 0)
RomDrawOverrun == << 96, 255, 175, 254, 240, 85, 97, 0, 111, 1, 209, 19 >>

DrawRoms ==
  { DrawRom(vx, vy, g, n) :
      vx \in DrawXs, vy \in DrawYs, g \in 0..MaxGlyph, n \in DrawHeights }
  \cup { RomDrawOverrun }

\* Chip8::new and load_rom(rom)
InitDraw ==
  /\ config = Chip8Config_new
  /\ \E rom \in DrawRoms :
       /\ MachineIs(load_rom(Chip8_new, rom).m)
       /\ call = [op |-> "load_rom", arg |-> rom]
  /\ ret = Ok(0)
  /\ loads = 1
  /\ writes = 0
  /\ snapshot = Display_new

\* Chip8::fb()
Fb ==
  /\ ~Panicked(Machine)
  /\ LET r == Display_fb(fb) IN
       /\ dirty' = r.dirty
       /\ ret' = Ok(r.ret)
       /\ snapshot' = r.ret
  /\ call' = [op |-> "fb", arg |-> << >>]
  /\ fetches' = 0
  /\ UNCHANGED << config, memory, fb, keys, awaiting_release, stack, sp, v,
                  pc, i, dt, st, panic, frames, fetched, loads, writes >>

\* Chip8::is_fb_dirty()
IsFbDirty ==
  /\ ~Panicked(Machine)
  /\ ret' = Ok(dirty)
  /\ call' = [op |-> "is_fb_dirty", arg |-> << >>]
  /\ fetches' = 0
  /\ UNCHANGED << config, memory, fb, dirty, keys, awaiting_release, stack,
                  sp, v, pc, i, dt, st, panic, frames, fetched, loads, writes,
                  snapshot >>

NextDraw == Step \/ Fb \/ IsFbDirty

SpecDraw == InitDraw /\ [][NextDraw]_vars

(* ---------------------------------------------------------------------- *)
(* A Display on its own: toggle, clear and fb                              *)
(* ---------------------------------------------------------------------- *)
\* the coordinates toggled: the first and the last column and row, and the
\* first ones out of range
ToggleXs ==
  { 0, SCREEN_WIDTH - 1 } \cup
  { SCREEN_WIDTH - 1 + e : e \in 1..MaxToggleOver }

ToggleYs ==
  { 0, SCREEN_HEIGHT - 1 } \cup
  { SCREEN_HEIGHT - 1 + e : e \in 1..MaxToggleOver }

\* Display::new (the other variables are those of a new interpreter and
\* never change)
InitToggle ==
  /\ config = Chip8Config_new
  /\ MachineIs(Chip8_new)
  /\ call = [op |-> "new", arg |-> << >>]
  /\ ret = Ok(0)
  /\ loads = 0
  /\ writes = 0
  /\ snapshot = Display_new

\* Display::toggle(x, y)
Toggle ==
  /\ \E x \in ToggleXs, y \in ToggleYs :
       LET t == Display_toggle(fb, dirty, x, y) IN
       /\ fb' = t.fb
       /\ dirty' = t.dirty
       /\ ret' = Ok(t.ret)
       /\ call' = [op |-> "toggle", arg |-> << x, y >>]
  /\ UNCHANGED << config, memory, keys, awaiting_release, stack, sp, v, pc,
                  i, dt, st, panic, frames, fetches, fetched, loads, writes,
                  snapshot >>

\* Display::clear()
Clear ==
  /\ LET c == Display_clear(fb) IN
       /\ fb' = c.fb
       /\ dirty' = c.dirty
  /\ ret' = Ok(0)
  /\ call' = [op |-> "clear", arg |-> << >>]
  /\ UNCHANGED << config, memory, keys, awaiting_release, stack, sp, v, pc,
                  i, dt, st, panic, frames, fetches, fetched, loads, writes,
                  snapshot >>

NextToggle == Toggle \/ Clear \/ Fb

SpecToggle == InitToggle /\ [][NextToggle]_vars

(* ---------------------------------------------------------------------- *)
(* A host that sends keys with and without a CHIP-8 key to a program that  *)
(* waits for keys                                                          *)
(* ---------------------------------------------------------------------- *)
\* the scancodes sent, in the order the bound adds them: V (key F), a key
\* without a CHIP-8 key, X (key 0), another key without one, 1 (key 1)
PadScancodeOrder == << 9, 4, 7, 22, 18 >>

PadScancodes == { PadScancodeOrder[j] : j \in 1..MaxPadKeys }

\* Chip8::new and load_rom(RomWaitKey)
InitKeypad ==
  /\ config = Chip8Config_new
  /\ MachineIs(load_rom(Chip8_new, RomWaitKey).m)
  /\ call = [op |-> "load_rom", arg |-> RomWaitKey]
  /\ ret = Ok(0)
  /\ loads = 1
  /\ writes = 0
  /\ snapshot = Display_new

\* Chip8::keydown(scancode)
PadKeyDown ==
  /\ ~Panicked(Machine)
  /\ \E scancode \in PadScancodes :
       /\ keys' = Keypad_keydown(keys, Key_from_scancode(scancode))
       /\ call' = [op |-> "keydown", arg |-> scancode]
  /\ ret' = Ok(0)
  /\ fetches' = 0
  /\ UNCHANGED << config, memory, fb, dirty, awaiting_release, stack, sp, v,
                  pc, i, dt, st, panic, frames, fetched, loads, writes,
                  snapshot >>

\* Chip8::keyup(scancode)
PadKeyUp ==
  /\ ~Panicked(Machine)
  /\ \E scancode \in PadScancodes :
       /\ keys' = Keypad_keyup(keys, Key_from_scancode(scancode))
       /\ call' = [op |-> "keyup", arg |-> scancode]
  /\ ret' = Ok(0)
  /\ fetches' = 0
  /\ UNCHANGED << config, memory, fb, dirty, awaiting_release, stack, sp, v,
                  pc, i, dt, st, panic, frames, fetched, loads, writes,
                  snapshot >>

NextKeypad == Step \/ PadKeyDown \/ PadKeyUp

SpecKeypad == InitKeypad /\ [][NextKeypad]_vars

(* ---------------------------------------------------------------------- *)
(* A program that sets both timers, run by steps and cycles                *)
(* ---------------------------------------------------------------------- *)
\* 0x200 60kd  V0 = kd
\* 0x202 F015  delay timer = V0
\* 0x204 61ks  V1 = ks
\* 0x206 F118  sound timer = V1
\* 0x208 1208  jump to itself
TimerRom(kd, ks) == << 96, kd, 240, 21, 97, ks, 241, 24, 18, 8 >>

TimerRoms == { TimerRom(MaxTimer, ks) : ks \in 1..MaxTimer }

\* Chip8::new, ops_per_cycle(n) and load_rom(rom)
InitTimers ==
  /\ config \in Configs
  /\ \E rom \in TimerRoms :
       /\ MachineIs(load_rom(Chip8_new, rom).m)
       /\ call = [op |-> "load_rom", arg |-> rom]
  /\ ret = Ok(0)
  /\ loads = 1
  /\ writes = 0
  /\ snapshot = Display_new

\* Chip8::is_sound_playing()
IsSoundPlaying ==
  /\ ~Panicked(Machine)
  /\ ret' = Ok(is_sound_playing(Machine))
  /\ call' = [op |-> "is_sound_playing", arg |-> << >>]
  /\ fetches' = 0
  /\ UNCHANGED << config, memory, fb, dirty, keys, awaiting_release, stack,
                  sp, v, pc, i, dt, st, panic, frames, fetched, loads, writes,
                  snapshot >>

NextTimers == Step \/ Cycle \/ IsSoundPlaying

SpecTimers == InitTimers /\ [][NextTimers]_vars

(* ---------------------------------------------------------------------- *)
(* Programs that set two registers and combine them                        *)
(* ---------------------------------------------------------------------- *)
AluValues ==
  (0..MaxAluSmall) \cup ((255 - MaxAluSmall)..255) \cup { 25, 100, 128, 200 }

\* the pairs <<x, y>>: distinct registers, the same register, VF as y and
\* VF as x
AluRegisters == { << 0, 1 >>, << 3, 3 >>, << 2, 15 >>, << 15, 1 >> }

\* the low nibbles of 8XY4, 8XY5, 8XY6, 8XY7 and 8XYE
AluOps == { 4, 5, 6, 7, 14 }

\* 0x200 6xaa  V[x] = a
\* 0x202 6ybb  V[y] = b
\* 0x204 8xyn
AluRom(x, a, y, b, n) == << 96 + x, a, 96 + y, b, 128 + x, 16 * y + n >>

AluRoms ==
  { AluRom(r[1], a, r[2], b, n) :
      r \in AluRegisters, a \in AluValues, b \in AluValues, n \in AluOps }

\* Chip8::new, legacy_shift(on or off) and load_rom(rom)
InitAlu ==
  /\ config \in { [Chip8Config_new EXCEPT !.legacy_shift = q] : q \in BOOLEAN }
  /\ \E rom \in AluRoms :
       /\ MachineIs(load_rom(Chip8_new, rom).m)
       /\ call = [op |-> "load_rom", arg |-> rom]
  /\ ret = Ok(0)
  /\ loads = 1
  /\ writes = 0
  /\ snapshot = Display_new

NextAlu == Step

SpecAlu == InitAlu /\ [][NextAlu]_vars

(* ---------------------------------------------------------------------- *)
(* Programs that store registers, clear them and load them back            *)
(* ---------------------------------------------------------------------- *)
\* start addresses: as in the tests, and the last one a block of 3 fits at
StoreAddrs == { 768, MEM_SIZE - 3 }

StoreValues == { 1, 255 }

\* 0x200 60aa 61EA 627B  V0 = a, V1 = 0xEA, V2 = 0x7B
\* 0x206 Annn            I = nnn
\* 0x208 Fx55            store V0..Vx
\* 0x20A 6000 6100 6200  V0 = V1 = V2 = 0
\* 0x210 Annn            I = nnn
\* 0x212 Fx65            load V0..Vx
StoreLoadRom(a, nnn, x) ==
  << 96, a, 97, 234, 98, 123, 160 + (nnn \div 256), nnn % 256, 240 + x, 85,
     96, 0, 97, 0, 98, 0, 160 + (nnn \div 256), nnn % 256, 240 + x, 101 >>

StoreLoadRoms ==
  { StoreLoadRom(a, nnn, x) :
      a \in StoreValues, nnn \in StoreAddrs, x \in 0..MaxStoreX }

\* Chip8::new, memory_increment_i(on or off) and load_rom(rom)
InitStoreLoad ==
  /\ config \in { [Chip8Config_new EXCEPT !.memory_increment_i = q] :
                    q \in BOOLEAN }
  /\ \E rom \in StoreLoadRoms :
       /\ MachineIs(load_rom(Chip8_new, rom).m)
       /\ call = [op |-> "load_rom", arg |-> rom]
  /\ ret = Ok(0)
  /\ loads = 1
  /\ writes = 0
  /\ snapshot = Display_new

NextStoreLoad == Step

SpecStoreLoad == InitStoreLoad /\ [][NextStoreLoad]_vars

(* ---------------------------------------------------------------------- *)
(* Programs that set V0 and V[x] and jump with offset                      *)
(* ---------------------------------------------------------------------- *)
\* targets: as in the test, x = 0, and the highest address with x = F
JumpTargets == { 768, 240, 4095 }

JumpValues == (0..MaxJumpSmall) \cup { 16, 255 }

\* 0x200 60aa  V0 = a
\* 0x202 6xbb  V[x] = b, x being the high nibble of nnn
\* 0x204 Bnnn
JumpOffsetRom(a, b, nnn) ==
  << 96, a, 96 + (nnn \div 256), b, 176 + (nnn \div 256), nnn % 256 >>

JumpOffsetRoms ==
  { JumpOffsetRom(a, b, nnn) :
      a \in JumpValues, b \in JumpValues, nnn \in JumpTargets }

\* Chip8::new, jump_add_offset(on or off) and load_rom(rom)
InitJump ==
  /\ config \in { [Chip8Config_new EXCEPT !.jump_add_offset = q] :
                    q \in BOOLEAN }
  /\ \E rom \in JumpOffsetRoms :
       /\ MachineIs(load_rom(Chip8_new, rom).m)
       /\ call = [op |-> "load_rom", arg |-> rom]
  /\ ret = Ok(0)
  /\ loads = 1
  /\ writes = 0
  /\ snapshot = Display_new

NextJump == Step

SpecJump == InitJump /\ [][NextJump]_vars

(* ---------------------------------------------------------------------- *)
(* A host that loads a second program over a running one                   *)
(* ---------------------------------------------------------------------- *)
\* 0x200 6005  V0 = 5
\* 0x202 A050  I = the glyph of 0
\* 0x204 D015  draw 5 rows at (5, 0)
\* 0x206 6001  V0 = 1
\* 0x208 F015  delay timer = 1
\* 0x20A F018  sound timer = 1
\* 0x20C 2210  call 0x210
\* 0x20E 120E
\* 0x210 F10A  wait for a key into V1
\* 0x212 1212  jump to itself
RomBusy ==
  << 96, 5, 160, 80, 208, 21, 96, 1, 240, 21, 240, 24, 34, 16, 18, 14,
     241, 10, 18, 18 >>

\* the programs loaded over it: none, a jump to itself, a wait for a key
\* into V2, and one byte more than fits
ReloadRoms == { << >>, << 18, 0 >>, << 242, 10 >>, JumpRom(RomRoom + 1, 0) }

\* every quirk on, two instructions per cycle
ReloadConfigs ==
  { [legacy_shift |-> TRUE, jump_add_offset |-> TRUE,
     memory_increment_i |-> TRUE, ops_per_cycle |-> 2] }

\* Chip8::new, the configuration and load_rom(RomBusy)
InitReload ==
  /\ config \in ReloadConfigs
  /\ MachineIs(load_rom(Chip8_new, RomBusy).m)
  /\ call = [op |-> "load_rom", arg |-> RomBusy]
  /\ ret = Ok(0)
  /\ loads = 1
  /\ writes = 0
  /\ snapshot = Display_new

\* Chip8::load_rom(rom) over the program that is running
Reload ==
  /\ ~Panicked(Machine)
  /\ loads < 1 + MaxReloads
  /\ \E rom \in ReloadRoms :
       LET r == load_rom([Machine EXCEPT !.fetches = 0], rom) IN
       /\ SetMachine(r.m)
       /\ ret' = (IF r.ok THEN Ok(0) ELSE Err("write rom into memory"))
       /\ call' = [op |-> "load_rom", arg |-> rom]
  /\ loads' = loads + 1
  /\ UNCHANGED << config, writes, snapshot >>

\* the scancode the host sends while programs are reloaded: V (key F)
ReloadScancodes == { 9 }

\* Chip8::keydown(scancode)
ReloadKeyDown ==
  /\ ~Panicked(Machine)
  /\ \E scancode \in ReloadScancodes :
       /\ keys' = Keypad_keydown(keys, Key_from_scancode(scancode))
       /\ call' = [op |-> "keydown", arg |-> scancode]
  /\ ret' = Ok(0)
  /\ fetches' = 0
  /\ UNCHANGED << config, memory, fb, dirty, awaiting_release, stack, sp, v,
                  pc, i, dt, st, panic, frames, fetched, loads, writes,
                  snapshot >>

\* Chip8::keyup(scancode)
ReloadKeyUp ==
  /\ ~Panicked(Machine)
  /\ \E scancode \in ReloadScancodes :
       /\ keys' = Keypad_keyup(keys, Key_from_scancode(scancode))
       /\ call' = [op |-> "keyup", arg |-> scancode]
  /\ ret' = Ok(0)
  /\ fetches' = 0
  /\ UNCHANGED << config, memory, fb, dirty, awaiting_release, stack, sp, v,
                  pc, i, dt, st, panic, frames, fetched, loads, writes,
                  snapshot >>

NextReload == Reload \/ Step \/ ReloadKeyDown \/ ReloadKeyUp

SpecReload == InitReload /\ [][NextReload]_vars

(* ---------------------------------------------------------------------- *)
(* Programs that take pc to the ends of its range                          *)
(* ---------------------------------------------------------------------- *)
\* 0x200 60F0 610A  V0 = 0xF0, V1 = 0x0A
\* 0x204 A000       I = 0
\* 0x206 F155       store V0, V1 at 0: the word F00A
\* 0x208 1000       jump to 0
\* 0x000 F00A       wait for a key into V0
RomWaitAtZero == << 96, 240, 97, 10, 160, 0, 241, 85, 16, 0 >>

\* 0x200 6040 6100  V0 = 0x40, V1 = 0
\* 0x204 AFFE       I = 0xFFE
\* 0x206 F155       store V0, V1 at 0xFFE: the word 4000
\* 0x208 1FFE       jump to 0xFFE
\* 0xFFE 4000       skip as V0 is not 0
RomSkipAtEnd == << 96, 64, 97, 0, 175, 254, 241, 85, 31, 254 >>

\* the jumps with offset, the wait at the lowest and the skip at the
\* highest address
PcRoms == JumpOffsetRoms \cup { RomWaitAtZero, RomSkipAtEnd }

\* Chip8::new, jump_add_offset(on or off) and load_rom(rom)
InitPc ==
  /\ config \in { [Chip8Config_new EXCEPT !.jump_add_offset = q] :
                    q \in BOOLEAN }
  /\ \E rom \in PcRoms :
       /\ MachineIs(load_rom(Chip8_new, rom).m)
       /\ call = [op |-> "load_rom", arg |-> rom]
  /\ ret = Ok(0)
  /\ loads = 1
  /\ writes = 0
  /\ snapshot = Display_new

NextPc == Step \/ ReloadKeyDown \/ ReloadKeyUp

SpecPc == InitPc /\ [][NextPc]_vars

(* ---------------------------------------------------------------------- *)
(* Programs that skip on a key                                             *)
(* ---------------------------------------------------------------------- *)
\* the values of V0: the first and the last key, the values next above
\* them and the largest byte
KeySkipValues == { 0, 15, 255 } \cup { 15 + e : e \in 1..MaxSkipOver }

\* 0x200 60vv  V0 = value
\* 0x202 E0nn  E09E (nn = 0x9E) or E0A1 (nn = 0xA1)
\* 0x204 1204  jump to itself
\* 0x206 1206  jump to itself
KeySkipRom(value, nn) == << 96, value, 224, nn, 18, 4, 18, 6 >>

KeySkipRoms ==
  { KeySkipRom(value, nn) : value \in KeySkipValues, nn \in { 158, 161 } }

\* Chip8::new and load_rom(rom)
InitKeySkip ==
  /\ config = Chip8Config_new
  /\ \E rom \in KeySkipRoms :
       /\ MachineIs(load_rom(Chip8_new, rom).m)
       /\ call = [op |-> "load_rom", arg |-> rom]
  /\ ret = Ok(0)
  /\ loads = 1
  /\ writes = 0
  /\ snapshot = Display_new

NextKeySkip == Step \/ PadKeyDown \/ PadKeyUp

SpecKeySkip == InitKeySkip /\ [][NextKeySkip]_vars

(* ---------------------------------------------------------------------- *)
(* Observations used by the properties                                     *)
(* ---------------------------------------------------------------------- *)
\* the last transition was a step call, resp. a step or a cycle call
LastStep == call.op = "step"

LastRun == call.op \in {"step", "cycle"}

\* the word a fetch at address a would read
WordAt(a) == memory[a] * 256 + memory[a + 1]

\* the instruction at pc is a wait-for-key (FX0A)
IsGetKey(word) == word \div 4096 = 15 /\ word % 256 = 10

AtGetKey == pc + 1 < MEM_SIZE /\ IsGetKey(WordAt(pc))

\* the x nibble of a word
XOf(word) == (word \div 256) % 16

AllKeysUp == \A k \in DOMAIN keys : keys[k] = 0

(* ---------------------------------------------------------------------- *)
(* Wait for key                                                            *)
(* ---------------------------------------------------------------------- *)
\* C1: a step (or the steps of a cycle) taken while the instruction at pc is
\* FX0A, no key is down and the latch is empty leaves pc at the instruction
\* and leaves V and the latch unchanged; so does any number of them.
C1_WaitHoldsWithoutKey ==
  [][ (LastRun' /\ AtGetKey /\ AllKeysUp /\ awaiting_release = None)
        => (pc' = pc /\ v' = v /\ awaiting_release' = None
            /\ panic' = NoPanic) ]_vars

\* a step has executed FX0A with no key down and an empty latch
C1_Witness ==
  /\ LastStep /\ loads > 0
  /\ IsGetKey(fetched.word) /\ fetched.at = pc
  /\ AllKeysUp /\ awaiting_release = None

\* C2: a step at FX0A completes (V[x] := latched key, latch emptied, pc past
\* the instruction) exactly when it finds the latch set and the latched key
\* up; any other step at FX0A leaves pc at the instruction and V unchanged.
C2_WaitCompletesOnRelease ==
  [][ (LastStep' /\ AtGetKey) =>
        LET x == XOf(WordAt(pc)) IN
        IF \E k \in awaiting_release : keys[k] = 0
        THEN \E k \in awaiting_release :
               /\ v' = [v EXCEPT ![x] = k]
               /\ awaiting_release' = None
               /\ pc' = pc + 2
        ELSE pc' = pc /\ v' = v ]_vars

\* a step has completed a wait on key F: V1 = F, latch empty, pc advanced
C2_Witness ==
  /\ LastStep /\ IsGetKey(fetched.word) /\ pc = fetched.at + 2
  /\ v[XOf(fetched.word)] = 15 /\ awaiting_release = None

\* C3: once the latch holds key k it keeps holding k through every step,
\* cycle, keydown and keyup, until a wait-for-key step observes k up (and
\* then it is emptied); a key is latched only by a wait-for-key step that
\* finds it down.
C3_LatchKeptUntilRelease ==
  [][ /\ \A k \in awaiting_release :
           \/ awaiting_release' = awaiting_release
           \/ LastRun' /\ keys[k] = 0
      /\ \A k \in awaiting_release' \ awaiting_release :
           LastRun' /\ keys[k] = 1 ]_vars

\* C4: when the host keeps calling step, a wait-for-key at address p that
\* has latched a key completes once all keys are up for good: V[x] holds a
\* key index and pc is p + 2.
WaitCompleted(p) ==
  /\ LastStep /\ fetched.at = p /\ IsGetKey(fetched.word)
  /\ pc = p + 2
  /\ v[XOf(fetched.word)] \in 0..(KEY_COUNT - 1)
  /\ awaiting_release = None

C4_WaitEventuallyCompletes ==
  \A p \in { ROM_ADDR, ROM_ADDR + 2 } :
    []( (pc = p /\ AtGetKey /\ awaiting_release # None /\ []AllKeysUp)
          => <>WaitCompleted(p) )

\* a step has completed a wait on key 0 after key 0 was latched and released
C4_Witness ==
  /\ WaitCompleted(ROM_ADDR + 2) /\ XOf(fetched.word) = 0 /\ v[0] = 0
  /\ AllKeysUp

(* ---------------------------------------------------------------------- *)
(* step and cycle                                                          *)
(* ---------------------------------------------------------------------- *)
\* C5 as stated: every step call makes exactly one fetch-decode-execute and
\* returns, every cycle call makes exactly ops_per_cycle of them and returns.
C5_EveryCallRunsToTheEnd ==
  /\ LastStep => (fetches = 1 /\ panic = NoPanic)
  /\ call.op = "cycle" => (fetches = config.ops_per_cycle /\ panic = NoPanic)

\* C5 amended: a step call makes exactly one fetch-decode-execute; a cycle
\* call in which no instruction is fatal makes exactly ops_per_cycle of them,
\* also while a wait for a key is pending; a fatal instruction ends the call
\* (and the program) at that instruction, after at most ops_per_cycle
\* fetches.
C5_RunsExactly ==
  /\ LastStep => fetches = 1
  /\ (call.op = "cycle" /\ panic = NoPanic) => fetches = config.ops_per_cycle
  /\ (call.op = "cycle" /\ panic # NoPanic) =>
       (fetches >= 1 /\ fetches <= config.ops_per_cycle)

\* a cycle of 11 steps has returned with a wait for a key still pending
C5_Witness ==
  /\ call.op = "cycle" /\ panic = NoPanic
  /\ config.ops_per_cycle = DefaultOpsPerCycle /\ fetches = DefaultOpsPerCycle
  /\ IsGetKey(fetched.word) /\ fetched.at = pc /\ AtGetKey

(* ---------------------------------------------------------------------- *)
(* Subroutines                                                             *)
(* ---------------------------------------------------------------------- *)
IsCall(word) == word \div 4096 = 2

IsReturn(word) == word = 238

AtCall == pc + 1 < MEM_SIZE /\ IsCall(WordAt(pc))

AtReturn == pc + 1 < MEM_SIZE /\ IsReturn(WordAt(pc))

\* C6: while the stack holds fewer than STACK_SIZE addresses, a call fetched
\* at p pushes p + 2, increments sp and sets pc to nnn; a return with a
\* non-empty stack restores pc to the return address of the matching call
\* (the last call not yet returned from) and sp to its value before that call.
C6_CallReturnRoundTrip ==
  [][ LastStep' =>
        /\ (AtCall /\ sp < STACK_SIZE) =>
             /\ panic' = NoPanic
             /\ stack' = [stack EXCEPT ![sp] = pc + 2]
             /\ sp' = sp + 1
             /\ pc' = WordAt(pc) % 4096
             /\ frames' = Append(frames, << pc + 2, sp >>)
        /\ (AtReturn /\ sp > 0) =>
             /\ panic' = NoPanic
             /\ Len(frames) > 0
             /\ pc' = frames[Len(frames)][1]
             /\ sp' = frames[Len(frames)][2]
             /\ stack' = stack ]_vars

\* C7: a call succeeds whenever fewer than STACK_SIZE (16) addresses are on
\* the stack, is fatal with 16 on it, and sp never exceeds 16.
C7_StackHoldsSixteen ==
  [][ /\ sp' <= STACK_SIZE
      /\ (LastStep' /\ AtCall) =>
           IF sp < STACK_SIZE
           THEN panic' = NoPanic /\ sp' = sp + 1
           ELSE panic'.msg = "call stack overflow" /\ sp' = sp ]_vars

\* C8: a return executed with sp = 0 is fatal: sp stays 0, the stack is
\* untouched and pc is the address after the instruction, not a stack slot.
C8_ReturnOnEmptyStackIsFatal ==
  [][ (LastStep' /\ AtReturn /\ sp = 0) =>
        /\ panic'.msg = "sub return with empty stack"
        /\ sp' = 0
        /\ stack' = stack
        /\ frames' = frames
        /\ pc' = pc + 2 ]_vars

\* a return has been executed with an empty stack
C8_Witness ==
  /\ LastStep /\ IsReturn(fetched.word) /\ sp = 0
  /\ panic.msg = "sub return with empty stack"
  /\ pc = fetched.at + 2 /\ loads > 0

(* ---------------------------------------------------------------------- *)
(* Invalid opcodes                                                         *)
(* ---------------------------------------------------------------------- *)
\* the words of the defined opcodes
DefinedOpcode(word) ==
  LET c == word \div 4096
      n == word % 16
      nn == word % 256 IN
  \/ word = 224
  \/ word = 238
  \/ c \in {1, 2, 3, 4, 6, 7, 10, 11, 12, 13}
  \/ c \in {5, 9} /\ n = 0
  \/ c = 8 /\ n \in (0..7) \cup {14}
  \/ c = 14 /\ nn \in {158, 161}
  \/ c = 15 /\ nn \in {7, 10, 21, 24, 30, 41, 51, 85, 101}

\* C9: a step that fetches a word that is not a defined opcode ends in the
\* fatal invalid-opcode error, which reports the address the word was
\* fetched from, pc being that address plus 2.
C9_UndefinedWordsAreFatal ==
  (LastStep /\ fetches = 1 /\ ~DefinedOpcode(fetched.word)) =>
    /\ panic.msg = "invalid opcode"
    /\ panic.at = fetched.at
    /\ pc = fetched.at + 2

(* ---------------------------------------------------------------------- *)
(* Memory::write                                                           *)
(* ---------------------------------------------------------------------- *)
\* C10: write(addr, bytes) fails when addr >= 4096 or addr + len > 4096 and
\* then leaves all bytes unchanged; otherwise it succeeds, the bytes
\* addr..addr+len-1 are the given ones and every other byte is unchanged.
C10_WriteAllOrNothing ==
  [][ call'.op = "write" =>
        LET addr == call'.arg[1]
            bytes == call'.arg[2] IN
        IF addr >= MEM_SIZE \/ addr + Len(bytes) > MEM_SIZE
        THEN ~ret'.ok /\ memory' = memory
        ELSE /\ ret'.ok
             /\ \A a \in DOMAIN memory :
                  memory'[a] = IF a >= addr /\ a < addr + Len(bytes)
                               THEN bytes[a - addr + 1]
                               ELSE memory[a] ]_vars

\* a write that reaches the last byte has succeeded, and a later write that
\* would pass the end has failed and left it in place
C10_Witness ==
  /\ call.op = "write" /\ ~ret.ok
  /\ call.arg[1] = MEM_SIZE - 1 /\ Len(call.arg[2]) = 2
  /\ memory[MEM_SIZE - 1] = WritePattern[2] /\ memory[0] = 0

(* ---------------------------------------------------------------------- *)
(* load_rom                                                                *)
(* ---------------------------------------------------------------------- *)
\* C11: load_rom(rom) with at most 3584 bytes succeeds, memory
\* 0x200..0x200+len-1 holds the bytes of rom in order and pc is 0x200; with
\* more than 3584 bytes it returns an error and memory and pc are unchanged.
C11_LoadRomFitsOrFails ==
  [][ call'.op = "load_rom" =>
        LET rom == call'.arg IN
        IF Len(rom) <= 3584
        THEN /\ ret'.ok
             /\ \A k \in 1..Len(rom) : memory'[512 + k - 1] = rom[k]
             /\ pc' = 512
        ELSE /\ ~ret'.ok
             /\ memory' = memory
             /\ pc' = pc ]_vars

\* a program one byte too long was refused while pc was 0x202 inside a
\* program that fills the memory up to its last byte
C11_Witness ==
  /\ call.op = "load_rom" /\ ~ret.ok
  /\ Len(call.arg) = 3585
  /\ pc = 514
  /\ memory[4094] = 18

(* ---------------------------------------------------------------------- *)
(* The font and the block instructions                                     *)
(* ---------------------------------------------------------------------- *)
\* C12: in every reachable state the 80 bytes at 0x050..0x09F are the font
\* table: no instruction and no program load overwrites a font byte.
C12_FontNeverOverwritten ==
  \A k \in 1..80 : memory[80 + k - 1] = FONT_DATA[k]

\* the instruction at pc is FX33, FX55 or FX65
IsBlockOp(word) == word \div 4096 = 15 /\ word % 256 \in {51, 85, 101}

AtBlockOp == pc + 1 < MEM_SIZE /\ IsBlockOp(WordAt(pc))

\* the last address the instruction at pc touches: I + 2 for FX33, I + x for
\* FX55 and FX65
LastTouched ==
  IF WordAt(pc) % 256 = 51 THEN i + 2 ELSE i + XOf(WordAt(pc))

\* C13: a step that runs FX55, FX65 or FX33 with a last address >= 4096 is
\* fatal and leaves memory, V and I as they were, whatever the
\* memory-increment-index quirk; with a last address of exactly 4095 it is
\* not fatal.
C13_BlockOpsFailWhole ==
  [][ (call'.op = "step" /\ AtBlockOp) =>
        /\ LastTouched >= 4096 =>
             (panic' # NoPanic /\ memory' = memory /\ v' = v /\ i' = i)
        /\ LastTouched = 4095 => panic' = NoPanic ]_vars

\* FX55 with x = 2 failed at I = 4094 with the quirk on
C13_Witness ==
  /\ call.op = "step"
  /\ panic.msg = "memory write overflow"
  /\ fetched.word = 62037
  /\ i = 4094
  /\ config.memory_increment_i

(* ---------------------------------------------------------------------- *)
(* Draw sprite                                                             *)
(* ---------------------------------------------------------------------- *)
\* the instruction at pc is DXYN
IsDraw(word) == word \div 4096 = 13

AtDraw == pc + 1 < MEM_SIZE /\ IsDraw(WordAt(pc))

\* the y and the n nibble of a word
YOf(word) == (word \div 16) % 16

NOf(word) == word % 16

\* the origin and the height of the sprite the instruction at pc draws
DrawOriginX == v[XOf(WordAt(pc))] % 64

DrawOriginY == v[YOf(WordAt(pc))] % 32

DrawRows == NOf(WordAt(pc))

\* the instruction at pc has to read a sprite row (one that is on screen)
\* at an address >= 4096
DrawOverruns ==
  \E row \in 0..(DrawRows - 1) :
    DrawOriginY + row < 32 /\ i + row >= 4096

\* C14: a step that runs DXYN and has to read a sprite row at an address
\* >= 4096 is fatal and has toggled no pixel, left the dirty flag and left VF
\* as they were before the instruction.
C14_DrawFailsWhole ==
  [][ (call'.op = "step" /\ AtDraw /\ DrawOverruns) =>
        /\ panic' # NoPanic
        /\ fb' = fb
        /\ dirty' = dirty
        /\ v'[15] = v[15] ]_vars

\* bit col (0 is the most significant) of sprite row `row`
SpriteBit(row, col) == (memory[i + row] \div (2 ^ (7 - col))) % 2

\* pixel (c, r) lies under a set sprite bit of the instruction at pc
Drawn(c, r) ==
  LET row == r - DrawOriginY
      col == c - DrawOriginX IN
  /\ row \in 0..(DrawRows - 1)
  /\ col \in 0..7
  /\ i + row < MEM_SIZE
  /\ SpriteBit(row, col) = 1

\* C19: after a step that runs DXYN and completes, VF is 1 if some set
\* sprite bit drawn on screen landed on a pixel that was on, and 0 if none
\* did, whatever VF held before.
C19_CollisionFlag ==
  [][ (call'.op = "step" /\ AtDraw /\ panic' = NoPanic) =>
        v'[15] = IF \E r \in 0..31, c \in 0..63 : Drawn(c, r) /\ fb[r][c] = 1
                 THEN 1 ELSE 0 ]_vars

\* the second draw of a program collided with the first glyph without
\* erasing it
C19_Witness ==
  /\ call.op = "step"
  /\ fetched.at = 522
  /\ IsDraw(fetched.word)
  /\ v[15] = 1
  /\ fb # Display_new

\* C20: a step that runs DXYN and completes flips exactly the pixels under
\* set sprite bits in the 8-by-n rectangle whose origin is
\* (V[x] mod 64, V[y] mod 32), the most significant bit leftmost; bits past
\* column 63 or row 31 are not drawn, and no other pixel changes.
C20_DrawClipsAtEdges ==
  [][ (call'.op = "step" /\ AtDraw /\ panic' = NoPanic) =>
        \A r \in 0..31, c \in 0..63 :
          fb'[r][c] = IF Drawn(c, r) THEN 1 - fb[r][c] ELSE fb[r][c] ]_vars

\* a glyph of 5 rows drawn at (63, 31) with V0 = 127 and V1 = 63: only its
\* top left bit is on screen
C20_Witness ==
  /\ call.op = "step"
  /\ fetched.at = 518
  /\ IsDraw(fetched.word)
  /\ v[0] = 127 /\ v[1] = 63
  /\ NOf(fetched.word) = 5
  /\ fb[31][63] = 1
  /\ fb[0][0] = 0 /\ fb[31][0] = 0 /\ fb[0][63] = 0

(* ---------------------------------------------------------------------- *)
(* The dirty flag                                                          *)
(* ---------------------------------------------------------------------- *)
\* C16: fb() returns the framebuffer and leaves the dirty flag false; the
\* flag then becomes true only by a step that toggles a pixel or clears the
\* screen; is_fb_dirty() returns the flag and changes nothing; and whenever
\* the framebuffer differs from the last snapshot (the blank screen if none
\* was taken) the flag is true.
C16_DirtyTracksSnapshot ==
  /\ [](fb # snapshot => dirty)
  /\ [][ /\ call'.op = "fb" =>
              (~dirty' /\ ret'.val = fb /\ fb' = fb)
         /\ (~dirty /\ dirty') =>
              (call'.op = "step" /\ (fb' # fb \/ WordAt(pc) = 224))
         /\ call'.op = "is_fb_dirty" =>
              (ret'.val = dirty /\ dirty' = dirty /\ fb' = fb
               /\ Machine' = [Machine EXCEPT !.fetches = 0]) ]_vars

\* is_fb_dirty() returned false for a screen that is not blank, after a
\* snapshot and a jump
C16_Witness ==
  /\ call.op = "is_fb_dirty"
  /\ ret.val = FALSE
  /\ fb # Display_new
  /\ snapshot = fb
  /\ pc = 526

(* ---------------------------------------------------------------------- *)
(* Display::toggle                                                         *)
(* ---------------------------------------------------------------------- *)
\* C17: for a toggle(x, y) call with x < 64 and y < 32 made in any display
\* state, calling toggle(x, y) once more gives back the framebuffer from
\* before the first call (the pixel and every other pixel); when the pixel
\* was off before the first call, the first call returns false and the
\* second true.
C17_ToggleTwiceRestores ==
  [][ (call'.op = "toggle" /\ call'.arg[1] < 64 /\ call'.arg[2] < 32) =>
        LET x == call'.arg[1]
            y == call'.arg[2]
            again == Display_toggle(fb', dirty', x, y) IN
        /\ fb'[y][x] # fb[y][x]
        /\ again.fb = fb
        /\ fb[y][x] = 0 => (ret'.val = FALSE /\ again.ret = TRUE) ]_vars

\* the second of two toggle(63, 31) calls returned true and the pixel is
\* off again, another pixel being on
C17_Witness ==
  /\ call.op = "toggle"
  /\ call.arg = << 63, 31 >>
  /\ ret.val = TRUE
  /\ fb[31][63] = 0
  /\ fb[0][0] = 1

\* C18: toggle(x, y) with x >= 64 or y >= 32 returns false and leaves every
\* pixel and the dirty flag unchanged.
C18_ToggleOutOfRange ==
  [][ (call'.op = "toggle" /\ (call'.arg[1] >= 64 \/ call'.arg[2] >= 32)) =>
        /\ ret'.val = FALSE
        /\ fb' = fb
        /\ dirty' = dirty ]_vars

\* toggle(64, 0) was called on a display that shows a pixel and is not dirty
C18_Witness ==
  /\ call.op = "toggle"
  /\ call.arg = << 64, 0 >>
  /\ ret.val = FALSE
  /\ fb[0][0] = 1
  /\ ~dirty

(* ---------------------------------------------------------------------- *)
(* keydown and keyup                                                       *)
(* ---------------------------------------------------------------------- *)
\* C15: keydown and keyup with a key in 0..15 set, resp. clear, that key's
\* state and change no other key; with a host key that maps to no CHIP-8
\* key they return a failure and leave the 16 key states and the latch
\* unchanged.
C15_KeysSetOrFail ==
  [][ call'.op \in {"keydown", "keyup"} =>
        LET key == Key_from_scancode(call'.arg) IN
        IF key # None
        THEN /\ \A k \in key :
                  /\ k \in 0..15
                  /\ keys'[k] = (IF call'.op = "keydown" THEN 1 ELSE 0)
             /\ \A k \in (0..15) \ key : keys'[k] = keys[k]
        ELSE /\ ~ret'.ok
             /\ keys' = keys
             /\ awaiting_release' = awaiting_release ]_vars

(* ---------------------------------------------------------------------- *)
(* Timers                                                                  *)
(* ---------------------------------------------------------------------- *)
\* word is FXnn for the given nn
IsFx(word, nn) == word \div 4096 = 15 /\ word % 256 = nn

\* the instruction at pc is a jump to itself: a cycle started here executes
\* nothing else
AtSelfJump == pc + 1 < MEM_SIZE /\ WordAt(pc) = 4096 + pc

\* a timer after one tick
Ticked(t) == IF t > 0 THEN t - 1 ELSE 0

\* C21: a cycle call lowers each timer by exactly 1 when it is above 0 and
\* leaves it at 0 otherwise, once, however many instructions it runs, and
\* before they run (a cycle of one instruction that is FX15 or FX18 leaves
\* the value set, not that value less 1); a step call changes the delay
\* timer only by FX15 and the sound timer only by FX18.
C21_TimersTickOncePerCycle ==
  [][ /\ (call'.op = "cycle" /\ AtSelfJump) =>
           (dt' = Ticked(dt) /\ st' = Ticked(st))
      /\ (call'.op = "cycle" /\ config.ops_per_cycle = 1
          /\ pc + 1 < MEM_SIZE) =>
           /\ dt' = IF IsFx(WordAt(pc), 21) THEN v[XOf(WordAt(pc))]
                    ELSE Ticked(dt)
           /\ st' = IF IsFx(WordAt(pc), 24) THEN v[XOf(WordAt(pc))]
                    ELSE Ticked(st)
      /\ call'.op = "step" =>
           /\ dt' # dt => (pc + 1 < MEM_SIZE /\ IsFx(WordAt(pc), 21))
           /\ st' # st => (pc + 1 < MEM_SIZE /\ IsFx(WordAt(pc), 24)) ]_vars

\* a cycle of 11 jumps has lowered the delay timer from 3 to 2 and left the
\* sound timer at 0
C21_Witness ==
  /\ call.op = "cycle"
  /\ config.ops_per_cycle = 11
  /\ pc = 520
  /\ fetches = 11
  /\ v[0] = 3 /\ dt = 2
  /\ v[1] = 1 /\ st = 0

\* C22: is_sound_playing() returns true exactly when the sound timer is
\* above 0 and changes nothing; over a cycle call that runs no FX18 it turns
\* from true to false exactly when the timer was 1, so that after FX18 set
\* the timer to k it is true during the next k-1 cycles and false from the
\* k-th on.
C22_SoundPlaysWhileTimerRuns ==
  [][ /\ call'.op = "is_sound_playing" =>
           (ret'.val = (st > 0) /\ st' = st /\ dt' = dt)
      /\ (call'.op = "cycle" /\ AtSelfJump) =>
           /\ is_sound_playing(Machine') = (st > 1)
           /\ ~is_sound_playing(Machine) => ~is_sound_playing(Machine') ]_vars

\* is_sound_playing() returned false after the sound timer, set to 2, has
\* run out
C22_Witness ==
  /\ call.op = "is_sound_playing"
  /\ ret.val = FALSE
  /\ pc = 520
  /\ v[1] = 2
  /\ st = 0

(* ---------------------------------------------------------------------- *)
(* Register arithmetic                                                     *)
(* ---------------------------------------------------------------------- *)
\* the instruction at pc is 8XYn for the given n
AtAlu(n) ==
  /\ ~Panicked(Machine)
  /\ pc + 1 < MEM_SIZE
  /\ WordAt(pc) \div 4096 = 8
  /\ WordAt(pc) % 16 = n

\* C23: with a = V[x], b = V[y] and x # F, 8XY4 leaves V[x] = (a + b) mod
\* 256 and VF = 1 iff a + b > 255; 8XY5 leaves V[x] = (a - b) mod 256 and
\* VF = 1 iff a >= b.
C23_AddAndSubRight ==
  [][ call'.op = "step" =>
        LET x == XOf(WordAt(pc))
            a == v[XOf(WordAt(pc))]
            b == v[YOf(WordAt(pc))] IN
        /\ (AtAlu(4) /\ x # 15) =>
             /\ v'[x] = (a + b) % 256
             /\ v'[15] = IF a + b > 255 THEN 1 ELSE 0
        /\ (AtAlu(5) /\ x # 15) =>
             /\ v'[x] = (a + 256 - b) % 256
             /\ v'[15] = IF a >= b THEN 1 ELSE 0 ]_vars

\* 8014 has added 200 and 100 to 44 with VF = 1
C23_Witness ==
  /\ call.op = "step"
  /\ fetched = [at |-> 516, word |-> 32788]
  /\ v[0] = 44
  /\ v[1] = 100
  /\ v[15] = 1

\* C24: with a = V[x], b = V[y] and x # F, 8XY7 leaves V[x] = (b - a) mod
\* 256 and VF = 1 iff b >= a.
C24_SubLeftWraps ==
  [][ (call'.op = "step" /\ AtAlu(7) /\ XOf(WordAt(pc)) # 15) =>
        LET x == XOf(WordAt(pc))
            a == v[XOf(WordAt(pc))]
            b == v[YOf(WordAt(pc))] IN
        /\ v'[x] = (b + 256 - a) % 256
        /\ v'[15] = IF b >= a THEN 1 ELSE 0 ]_vars

\* 8017 has taken 100 from 25, leaving 181 with VF = 0
C24_Witness ==
  /\ call.op = "step"
  /\ fetched = [at |-> 516, word |-> 32791]
  /\ v[0] = 181
  /\ v[1] = 25
  /\ v[15] = 0

\* C25: 8XY7 with V[y] < V[x] leaves V[x] = 0 and VF = 0, and with
\* V[y] >= V[x] it leaves V[x] = V[y] - V[x] and VF = 1 (x # F).
C25_SubLeftBorrowLeavesZero ==
  [][ (call'.op = "step" /\ AtAlu(7) /\ XOf(WordAt(pc)) # 15) =>
        LET x == XOf(WordAt(pc))
            a == v[XOf(WordAt(pc))]
            b == v[YOf(WordAt(pc))] IN
        IF b < a THEN v'[x] = 0 /\ v'[15] = 0
                 ELSE v'[x] = b - a /\ v'[15] = 1 ]_vars

\* the operand of a shift: V[y] with legacy_shift, V[x] without
ShiftOperand ==
  IF config.legacy_shift THEN v[YOf(WordAt(pc))] ELSE v[XOf(WordAt(pc))]

\* the operand shifted by 8XYn within 8 bits
Shifted(n, operand) == IF n = 6 THEN operand \div 2 ELSE (operand * 2) % 256

\* the bit 8XYn shifts out of the operand
ShiftedOut(n, operand) == IF n = 6 THEN operand % 2 ELSE operand \div 128

\* C26 as stated, for every x and y: V[x] is the operand shifted, VF the
\* bit shifted out and V[y] is unchanged.
C26_ShiftAnyRegisters ==
  [][ \A n \in { 6, 14 } :
        (call'.op = "step" /\ AtAlu(n)) =>
          /\ v'[XOf(WordAt(pc))] = Shifted(n, ShiftOperand)
          /\ v'[15] = ShiftedOut(n, ShiftOperand)
          /\ v'[YOf(WordAt(pc))] = v[YOf(WordAt(pc))] ]_vars

\* C26: 8XY6 and 8XYE take V[y] with legacy_shift and V[x] without; VF is
\* the bit shifted out of that operand; when x # F, V[x] is the operand
\* shifted by one bit within 8 bits; every register other than V[x] and VF
\* is unchanged, so V[y] is unchanged when y is neither x nor F.
C26_ShiftOtherRegisters ==
  [][ \A n \in { 6, 14 } :
        (call'.op = "step" /\ AtAlu(n)) =>
          /\ v'[15] = ShiftedOut(n, ShiftOperand)
          /\ XOf(WordAt(pc)) # 15 =>
               v'[XOf(WordAt(pc))] = Shifted(n, ShiftOperand)
          /\ \A r \in 0..(REGISTER_COUNT - 1) :
               (r # XOf(WordAt(pc)) /\ r # 15) => v'[r] = v[r] ]_vars

\* 8016 with legacy_shift has shifted V1 = 25 into V0 = 12 with VF = 1
C26_Witness ==
  /\ call.op = "step"
  /\ config.legacy_shift
  /\ fetched = [at |-> 516, word |-> 32790]
  /\ v[0] = 12
  /\ v[1] = 25
  /\ v[15] = 1

(* ---------------------------------------------------------------------- *)
(* Block store and load                                                    *)
(* ---------------------------------------------------------------------- *)
\* the instruction at pc is FX55 (nn = 85) or FX65 (nn = 101) and its block
\* I..I+x lies in memory
AtBlockInRange(nn) ==
  /\ ~Panicked(Machine)
  /\ pc + 1 < MEM_SIZE
  /\ IsFx(WordAt(pc), nn)
  /\ i + XOf(WordAt(pc)) < MEM_SIZE

\* I after FX55 or FX65 with the given x
IndexAfterBlock(x) == IF config.memory_increment_i THEN i + x + 1 ELSE i

\* C27: FX55 copies V0..Vx to memory I..I+x and FX65 copies memory I..I+x
\* to V0..Vx, I being its value before the instruction, and nothing else
\* changes in memory resp. the registers; afterwards I is that value plus
\* x+1 with memory_increment_i and unchanged without; the load at 0x212,
\* from the start address and with the x of the store at 0x208, gives the
\* cleared V0..Vx the values they had when stored.
C27_BlockStoreLoadRoundTrip ==
  [][ call'.op = "step" =>
        LET x == XOf(WordAt(pc)) IN
        /\ AtBlockInRange(85) =>
             /\ memory' = [a \in 0..(MEM_SIZE - 1) |->
                             IF a >= i /\ a <= i + x THEN v[a - i]
                             ELSE memory[a]]
             /\ v' = v
             /\ i' = IndexAfterBlock(x)
        /\ AtBlockInRange(101) =>
             /\ v' = [r \in 0..(REGISTER_COUNT - 1) |->
                        IF r <= x THEN memory[i + r] ELSE v[r]]
             /\ memory' = memory
             /\ i' = IndexAfterBlock(x)
        /\ (AtBlockInRange(101) /\ pc = 530) =>
             \A r \in 0..2 :
               /\ v[r] = 0
               /\ r <= x => v'[r] = memory[513 + 2 * r] ]_vars

\* with memory_increment_i, F265 at 0x212 has loaded back 255, 0xEA, 0x7B
\* from the last three bytes of memory and left I at 4096
C27_Witness ==
  /\ call.op = "step"
  /\ config.memory_increment_i
  /\ fetched = [at |-> 530, word |-> 62053]
  /\ v[0] = 255 /\ v[1] = 234 /\ v[2] = 123
  /\ memory[4095] = 123
  /\ i = 4096

(* ---------------------------------------------------------------------- *)
(* Jump with offset                                                        *)
(* ---------------------------------------------------------------------- *)
\* the instruction at pc is BNNN
AtJumpWithOffset ==
  /\ ~Panicked(Machine)
  /\ pc + 1 < MEM_SIZE
  /\ WordAt(pc) \div 4096 = 11

\* C28: BNNN sets pc to nnn + V[x], x being the high nibble of nnn, with
\* jump_add_offset and to nnn + V0 without, and changes no register.
C28_JumpWithOffset ==
  [][ (call'.op = "step" /\ AtJumpWithOffset) =>
        LET nnn == WordAt(pc) % 4096
            x == XOf(WordAt(pc)) IN
        /\ pc' = nnn + (IF config.jump_add_offset THEN v[x] ELSE v[0])
        /\ v' = v
        /\ panic' = NoPanic ]_vars

\* B300 with jump_add_offset, V0 = 255 and V3 = 0x10 has jumped to 0x310
C28_Witness ==
  /\ call.op = "step"
  /\ config.jump_add_offset
  /\ fetched = [at |-> 516, word |-> 45824]
  /\ v[0] = 255
  /\ v[3] = 16
  /\ pc = 784

(* ---------------------------------------------------------------------- *)
(* The value Memory::write returns                                         *)
(* ---------------------------------------------------------------------- *)
\* C29: a successful Memory::write(addr, data) returns the number of bytes
\* written, len(data).
C29_WriteReturnsLength ==
  [][ (call'.op = "write" /\ ret'.ok) => ret'.val = Len(call'.arg[2]) ]_vars

(* ---------------------------------------------------------------------- *)
(* Fetch and the program counter                                           *)
(* ---------------------------------------------------------------------- *)
\* word is a skip instruction whose condition holds in the current state
TakenSkip(word) ==
  LET c == word \div 4096
      x == XOf(word)
      y == YOf(word)
      nn == word % 256 IN
  \/ c = 3 /\ v[x] = nn
  \/ c = 4 /\ v[x] # nn
  \/ c = 5 /\ v[x] = v[y]
  \/ c = 9 /\ v[x] # v[y]
  \/ c = 14 /\ nn = 158 /\ v[x] < KEY_COUNT /\ is_key_down(keys, v[x])
  \/ c = 14 /\ nn = 161 /\ v[x] < KEY_COUNT /\ is_key_up(keys, v[x])

\* a wait-for-key executed now ends the wait: the latched key is up
WaitSatisfied == \E key \in awaiting_release : is_key_up(keys, key)

\* word is a jump (1NNN), a call (2NNN), a return (00EE) or a jump with
\* offset (BNNN)
SetsPc(word) == word \div 4096 \in { 1, 2, 11 } \/ word = 238

\* C30: a step fetches the bytes at pc and pc+1 as a big-endian word, from
\* the address pc had before the step; a defined instruction other than
\* jump, call, return and jump with offset leaves pc 4 above that address
\* when it is a taken skip, at that address when it is a wait-for-key that
\* is not satisfied, and 2 above it otherwise.
C30_FetchAdvancesPc ==
  [][ (call'.op = "step" /\ ~Panicked(Machine) /\ pc + 1 < MEM_SIZE) =>
        LET word == memory[pc] * 256 + memory[pc + 1] IN
        /\ fetched' = [at |-> pc, word |-> word]
        /\ (DefinedOpcode(word) /\ ~SetsPc(word)) =>
             pc' = IF TakenSkip(word) THEN pc + 4
                   ELSE IF IsGetKey(word) /\ ~WaitSatisfied THEN pc
                   ELSE pc + 2 ]_vars

\* 4005 at 0x200 was fetched and, V0 being 0, has skipped to 0x204
C30_Witness ==
  /\ call.op = "step"
  /\ fetched = [at |-> 512, word |-> 16389]
  /\ pc = 516

(* ---------------------------------------------------------------------- *)
(* The key a wait-for-key latches                                          *)
(* ---------------------------------------------------------------------- *)
\* the keys that are down
KeysDown == { k \in 0..(KEY_COUNT - 1) : is_key_down(keys, k) }

\* C31: a wait-for-key step that finds the latch empty and keys down
\* latches the lowest-indexed key that is down, and only that one.
C31_LatchesLowestKeyDown ==
  [][ (call'.op = "step" /\ ~Panicked(Machine) /\ AtGetKey
       /\ awaiting_release = None /\ KeysDown # {}) =>
        /\ awaiting_release' = Some(CHOOSE k \in KeysDown :
                                      \A j \in KeysDown : k <= j)
        /\ Cardinality(awaiting_release') = 1 ]_vars

\* with keys 0 and F both down, a step has latched key 0
C31_Witness ==
  /\ call.op = "step"
  /\ KeysDown = { 0, 15 }
  /\ awaiting_release = Some(0)
  /\ IsGetKey(fetched.word)

(* ---------------------------------------------------------------------- *)
(* What load_rom leaves alone                                              *)
(* ---------------------------------------------------------------------- *)
\* C32: load_rom(rom) changes memory only at 0x200..0x200+len(rom)-1 and
\* changes pc; the registers, I, the stack and sp, the timers, the
\* framebuffer and its dirty flag, the keys, the latch and the
\* configuration are unchanged, and a load that fails changes nothing.
C32_LoadRomFrame ==
  [][ call'.op = "load_rom" =>
        LET rom == call'.arg IN
        /\ v' = v /\ i' = i
        /\ stack' = stack /\ sp' = sp
        /\ dt' = dt /\ st' = st
        /\ fb' = fb /\ dirty' = dirty
        /\ keys' = keys /\ awaiting_release' = awaiting_release
        /\ config' = config
        /\ memory' = [a \in 0..(MEM_SIZE - 1) |->
                        IF a >= ROM_ADDR /\ a < ROM_ADDR + Len(rom)
                        THEN memory'[a] ELSE memory[a]]
        /\ ~ret'.ok => (memory' = memory /\ pc' = pc) ]_vars

\* 1200 was loaded over the running program: the registers, I, the timers,
\* the stack, the framebuffer, the key, the latch and the bytes of the old
\* program from 0x202 on are as they were, and pc is 0x200
C32_Witness ==
  /\ call.op = "load_rom" /\ call.arg = << 18, 0 >> /\ ret.ok
  /\ pc = ROM_ADDR
  /\ memory[512] = 18 /\ memory[513] = 0
  /\ memory[514] = 160 /\ memory[529] = 10
  /\ v[0] = 1 /\ i = 80
  /\ dt = 1 /\ st = 1
  /\ sp = 1 /\ stack[0] = 526
  /\ fb[0][5] = 1 /\ dirty
  /\ keys[15] = 1 /\ awaiting_release = Some(15)

(* ---------------------------------------------------------------------- *)
(* The latch and the instruction at pc                                     *)
(* ---------------------------------------------------------------------- *)
\* C33: whenever the awaiting-release latch is set, the instruction at pc
\* is a wait-for-key (FX0A).
C33_LatchOnlyAtWait ==
  (~Panicked(Machine) /\ awaiting_release # None) => AtGetKey

(* ---------------------------------------------------------------------- *)
(* The range of pc                                                         *)
(* ---------------------------------------------------------------------- *)
\* the largest value of pc: 0xFFF + 0xFF, from a jump with offset
PcLimit == (MEM_SIZE - 1) + 255

\* C34: pc stays within 0..0x10FE, so it neither wraps in 16 bits nor
\* falls below 0 when a wait-for-key sets it back, and a step taken with
\* pc >= 0xFFF is fatal with an index out of range: it fetches nothing and
\* leaves pc where it was.
C34_PcStaysInRange ==
  /\ [](pc \in 0..PcLimit)
  /\ [][ (call'.op = "step" /\ pc >= MEM_SIZE - 1) =>
           /\ panic'.msg = "index out of bounds"
           /\ pc' = pc
           /\ fetched' = fetched
           /\ memory' = memory /\ v' = v ]_vars

\* a step at pc = 0x10FE, where BFFF with V[F] = 0xFF jumped to, was fatal
C34_Witness ==
  /\ call.op = "step"
  /\ pc = PcLimit
  /\ v[15] = 255
  /\ panic.msg = "index out of bounds"

(* ---------------------------------------------------------------------- *)
(* Skips on a key                                                          *)
(* ---------------------------------------------------------------------- *)
\* the instruction at pc is EX9E (nn = 158) or EXA1 (nn = 161)
AtKeySkip(nn) ==
  /\ ~Panicked(Machine)
  /\ pc + 1 < MEM_SIZE
  /\ WordAt(pc) \div 4096 = 14
  /\ WordAt(pc) % 256 = nn

\* C35: for every value of V[x], EX9E and EXA1 complete without a fatal
\* error; EX9E leaves pc 4 above the instruction iff key V[x] is down and
\* EXA1 iff it is up, and 2 above it otherwise.
C35_KeySkipsNeverFatal ==
  [][ \A nn \in { 158, 161 } :
        (call'.op = "step" /\ AtKeySkip(nn)) =>
          LET key == v[XOf(WordAt(pc))] IN
          /\ panic' = NoPanic
          /\ key < KEY_COUNT =>
               pc' = IF (nn = 158) = is_key_down(keys, key)
                     THEN pc + 4 ELSE pc + 2 ]_vars

====
